---- MODULE Spec2Model ----
(***************************************************************************)
(* A model of the consensus core of avalanchego: the conflict manager      *)
(* (snowstorm/conflicts), the Topological DAG engine (consensus/avalanche) *)
(* and the vertex store with its accepted frontier.                        *)
(***************************************************************************)
EXTENDS Integers, Sequences, FiniteSets, TLC

(***************************************************************************)
(* Universe of the conflict-manager specification                          *)
(***************************************************************************)

\* Transaction ids handed to the conflict manager.  Dependencies point to
\* lower ids, which keeps the dependency relation acyclic.
CTxs == {1, 2, 3}

\* Cap on the number of copies of one transaction that may sit in the
\* pending acceptors and in the acceptable list at the same time.
MaxAccept == 1

\* choices.Status
Unknown == "Unknown"
Processing == "Processing"
Rejected == "Rejected"
Accepted == "Accepted"

(***************************************************************************)
(* Go maps with set values: a function whose DOMAIN is the key set.        *)
(***************************************************************************)

EmptyMap == [k \in {} |-> {}]

\* m[k] of a Go map: the zero value (the empty set) for a missing key
MapGet(m, k) == IF k \in DOMAIN m THEN m[k] ELSE {}

\* m[k] = v
MapPut(m, k, v) == [x \in (DOMAIN m) \cup {k} |-> IF x = k THEN v ELSE m[x]]

\* delete(m, k)
MapDel(m, k) == [x \in (DOMAIN m) \ {k} |-> m[x]]

\* for k in keys { s := m[k]; s.Add(x); m[k] = s }
MapAddTo(m, keys, x) ==
    [k \in (DOMAIN m) \cup keys |->
        IF k \in keys THEN MapGet(m, k) \cup {x} ELSE m[k]]

\* for k in keys { s := m[k]; s.Remove(x); m[k] = s }
MapRemoveFrom(m, keys, x) ==
    [k \in (DOMAIN m) \cup keys |->
        IF k \in keys THEN MapGet(m, k) \ {x} ELSE m[k]]

Range(s) == {s[i] : i \in 1..Len(s)}

\* All orders in which a Go range loop may visit the elements of S
Perms(S) ==
    {p \in [1..Cardinality(S) -> S] : \A i, j \in 1..Cardinality(S) : i # j => p[i] # p[j]}

\* The elements of set S in the order in which iteration order ord visits them
RECURSIVE SetToSeq(_, _)
SetToSeq(S, ord) ==
    IF ord = <<>> THEN <<>>
    ELSE IF Head(ord) \in S THEN <<Head(ord)>> \o SetToSeq(S, Tail(ord))
    ELSE SetToSeq(S, Tail(ord))

(***************************************************************************)
(* State                                                                   *)
(***************************************************************************)

VARIABLES
    c,         \* the Conflicts struct
    txStatus,  \* status of every transaction
    txDecl,    \* TestTx fields of every transaction: DependenciesV, PrecludedByV, PrecludesV
    ret,       \* what Updateable returned, and bookkeeping about past calls
    ta,        \* the Topological struct
    cg,        \* the conflict graph of the Topological instance
    vtxStatus, \* status of every vertex
    edge,      \* the edge of the vertex manager
    phase,     \* the engine is bootstrapping or running consensus
    call,      \* what the last Add, RecordPoll or job did
    te,        \* the Transitive engine
    out,       \* the polls the engine has recorded so far, and the limits of the run
    mgr,       \* the vertex manager: its database and its vertex cache
    res        \* what the last call of the vertex manager or of the sorter returned

cvars == <<c, txDecl, ret>>

tvars == <<ta, cg, vtxStatus, edge, phase, call>>

evars == <<te, out>>

svars == <<mgr, res>>

vars == <<c, txStatus, txDecl, ret, ta, cg, vtxStatus, edge, phase, call, te, out, mgr, res>>

NoDecl == [deps |-> {}, precludedBy |-> {}, precludes |-> {}]

\* New()
NewConflicts ==
    [ txs           |-> {},
      precludes     |-> EmptyMap,
      precludedBy   |-> EmptyMap,
      dependents    |-> EmptyMap,
      acceptors     |-> EmptyMap,   \* the acceptor objects the blocker points to
      pendingAccept |-> EmptyMap,   \* events.Blocker: id -> list of acceptors
      acceptable    |-> <<>>,
      rejectable    |-> <<>>,
      rejectableIDs |-> {} ]

(***************************************************************************)
(* events.Blocker and the acceptor job                                     *)
(***************************************************************************)

\* acceptor.Update: the transaction becomes acceptable once the acceptor was
\* not abandoned and waits for nothing
AcceptorUpdate(cf, job) ==
    IF job.rejected \/ job.deps # {} THEN cf
    ELSE [cf EXCEPT !.acceptable = Append(@, job.tx)]

FreshAcceptor(cf) == CHOOSE a \in 1..(Cardinality(DOMAIN cf.acceptors) + 1) : a \notin DOMAIN cf.acceptors

\* Blocker.Register: record the job under each of its dependencies, then
\* update it
BlockerRegister(cf, job) ==
    IF job.deps = {} THEN AcceptorUpdate(cf, job)
    ELSE LET a == FreshAcceptor(cf) IN
         [cf EXCEPT
            !.acceptors = [x \in (DOMAIN @) \cup {a} |-> IF x = a THEN job ELSE @[x]],
            !.pendingAccept =
                [k \in (DOMAIN @) \cup job.deps |->
                    IF k \in job.deps
                    THEN (IF k \in DOMAIN @ THEN @[k] ELSE <<>>) \o <<a>>
                    ELSE @[k]]]

\* Store the changed acceptor object, or drop it once nothing refers to it
PutAcceptor(cf, a, job) ==
    IF job.deps = {}
    THEN [cf EXCEPT !.acceptors = [x \in (DOMAIN @) \ {a} |-> @[x]]]
    ELSE [cf EXCEPT !.acceptors[a] = job]

\* acceptor.Fulfill for every job in the list
RECURSIVE FulfillJobs(_, _, _)
FulfillJobs(cf, jobs, id) ==
    IF jobs = <<>> THEN cf
    ELSE LET a == Head(jobs)
             job == [cf.acceptors[a] EXCEPT !.deps = @ \ {id}]
         IN FulfillJobs(AcceptorUpdate(PutAcceptor(cf, a, job), job), Tail(jobs), id)

\* acceptor.Abandon for every job in the list
RECURSIVE AbandonJobs(_, _, _)
AbandonJobs(cf, jobs, id) ==
    IF jobs = <<>> THEN cf
    ELSE LET a == Head(jobs)
             job == [cf.acceptors[a] EXCEPT !.deps = @ \ {id}, !.rejected = TRUE]
         IN AbandonJobs(PutAcceptor(cf, a, job), Tail(jobs), id)

BlockedOn(cf, id) == IF id \in DOMAIN cf.pendingAccept THEN cf.pendingAccept[id] ELSE <<>>

\* Blocker.Fulfill
BlockerFulfill(cf, id) ==
    FulfillJobs([cf EXCEPT !.pendingAccept = [k \in (DOMAIN @) \ {id} |-> @[k]]],
                BlockedOn(cf, id), id)

\* Blocker.Abandon
BlockerAbandon(cf, id) ==
    AbandonJobs([cf EXCEPT !.pendingAccept = [k \in (DOMAIN @) \ {id} |-> @[k]]],
                BlockedOn(cf, id), id)

(***************************************************************************)
(* Conflicts                                                               *)
(***************************************************************************)

\* A mutant of Add: the transactions that preclude tx are looked up in
\* c.precludes
ConflictsAddWrongMap(cf, txID, d, st) ==
    LET c1 == [cf EXCEPT !.txs = @ \cup {txID}]
        precludedBy == MapGet(c1.precludes, txID) \cup d.precludedBy
        c2 == [c1 EXCEPT !.precludedBy = MapPut(@, txID, precludedBy)]
        c3 == [c2 EXCEPT !.precludes = MapAddTo(@, precludedBy, txID)]
        txPrecludes == MapGet(c3.precludes, txID) \cup d.precludes
        c4 == [c3 EXCEPT !.precludes = MapPut(@, txID, txPrecludes)]
        c5 == [c4 EXCEPT !.precludedBy = MapAddTo(@, txPrecludes, txID)]
        depIDs == {dep \in d.deps : st[dep] # Accepted}
    IN [c5 EXCEPT !.dependents = MapAddTo(@, depIDs, txID)]

\* Conflicts.Add
ConflictsAdd(cf, txID, d, st) ==
    LET c1 == [cf EXCEPT !.txs = @ \cup {txID}]
        precludedBy == MapGet(c1.precludedBy, txID) \cup d.precludedBy
        c2 == [c1 EXCEPT !.precludedBy = MapPut(@, txID, precludedBy)]
        c3 == [c2 EXCEPT !.precludes = MapAddTo(@, precludedBy, txID)]
        txPrecludes == MapGet(c3.precludes, txID) \cup d.precludes
        c4 == [c3 EXCEPT !.precludes = MapPut(@, txID, txPrecludes)]
        c5 == [c4 EXCEPT !.precludedBy = MapAddTo(@, txPrecludes, txID)]
        depIDs == {dep \in d.deps : st[dep] # Accepted}
    IN [c5 EXCEPT !.dependents = MapAddTo(@, depIDs, txID)]

\* A choices.Decidable handed to the conflict manager: it is a Tx or it is not
Decidables == [tx : BOOLEAN, id : CTxs]

\* A mutant of Add: the type of the argument is not looked at
ConflictsAddAnyType(cf, txIntf, d, st) ==
    [cf |-> ConflictsAdd(cf, txIntf.id, d, st), err |-> FALSE]

\* Conflicts.Add, from its type assertion on
ConflictsAddIntf(cf, txIntf, d, st) ==
    IF ~txIntf.tx THEN [cf |-> cf, err |-> TRUE]
    ELSE [cf |-> ConflictsAdd(cf, txIntf.id, d, st), err |-> FALSE]

\* Conflicts.IsVirtuous
IsVirtuous(cf, txIntf) ==
    IF ~txIntf.tx THEN [virtuous |-> FALSE, err |-> TRUE]
    ELSE [ virtuous |-> ~\E precludor \in MapGet(cf.precludedBy, txIntf.id) :
                            precludor \in cf.txs,
           err      |-> FALSE ]

\* Conflicts.PrecludedBy; the list it returns is in no particular order
PrecludedBy(cf, txIntf) ==
    IF ~txIntf.tx THEN [txs |-> {}, err |-> TRUE]
    ELSE [ txs |-> {precludor \in MapGet(cf.precludedBy, txIntf.id) : precludor \in cf.txs},
           err |-> FALSE ]

\* Conflicts.Precludes; the list it returns is in no particular order
Precludes(cf, txIntf) ==
    IF ~txIntf.tx THEN [txs |-> {}, err |-> TRUE]
    ELSE [ txs |-> {precluded \in MapGet(cf.precludedBy, txIntf.id) : precluded \in cf.txs},
           err |-> FALSE ]

\* Conflicts.Accept with the dependency check left out
ConflictsAcceptNoDeps(cf, txID, d, st) ==
    IF txID \notin cf.txs THEN cf
    ELSE BlockerRegister(cf, [tx |-> txID, deps |-> {}, rejected |-> FALSE])

\* Conflicts.Accept
ConflictsAccept(cf, txID, d, st) ==
    IF txID \notin cf.txs THEN cf
    ELSE BlockerRegister(cf,
            [tx |-> txID,
             deps |-> {dep \in d.deps : st[dep] # Accepted},
             rejected |-> FALSE])

\* if isProcessing && !c.rejectableIDs.Contains(id) { add id to rejectable }
RECURSIVE MarkRejectable(_, _)
MarkRejectable(cf, ids) ==
    IF ids = <<>> THEN cf
    ELSE LET id == Head(ids) IN
         IF id \in cf.txs /\ id \notin cf.rejectableIDs
         THEN MarkRejectable([cf EXCEPT !.rejectableIDs = @ \cup {id},
                                        !.rejectable = Append(@, id)], Tail(ids))
         ELSE MarkRejectable(cf, Tail(ids))

\* Updateable, the body of the loop over the acceptable transactions
AcceptOne(cf, txID, ord) ==
    LET c1 == MarkRejectable(cf, SetToSeq(MapGet(cf.precludes, txID), ord))
        c2 == [c1 EXCEPT !.txs = @ \ {txID},
                         !.precludes = MapDel(@, txID),
                         !.dependents = MapDel(@, txID)]
        c3 == [c2 EXCEPT !.precludes = MapRemoveFrom(@, MapGet(c2.precludedBy, txID), txID)]
        c4 == [c3 EXCEPT !.precludedBy = MapDel(@, txID)]
    IN BlockerFulfill(c4, txID)

\* Updateable, the body of the loop over the rejectable transactions
RejectOne(cf, txID, ord) ==
    LET c1 == MarkRejectable(cf, SetToSeq(MapGet(cf.dependents, txID), ord))
        c2 == [c1 EXCEPT !.dependents = MapDel(@, txID),
                         !.txs = @ \ {txID},
                         !.precludes = MapDel(@, txID)]
        c3 == [c2 EXCEPT !.precludes = MapRemoveFrom(@, MapGet(c2.precludedBy, txID), txID)]
        c4 == [c3 EXCEPT !.precludedBy = MapDel(@, txID)]
    IN BlockerAbandon(c4, txID)

RECURSIVE AcceptLoop(_, _, _)
AcceptLoop(cf, list, ord) ==
    IF list = <<>> THEN cf
    ELSE AcceptLoop(AcceptOne(cf, Head(list), ord), Tail(list), ord)

RECURSIVE RejectLoop(_, _, _)
RejectLoop(cf, list, ord) ==
    IF list = <<>> THEN cf
    ELSE RejectLoop(RejectOne(cf, Head(list), ord), Tail(list), ord)

\* Conflicts.Updateable: the manager after the call and the two lists returned
Updateable(cf, ord) ==
    LET acceptable == cf.acceptable
        c1 == AcceptLoop([cf EXCEPT !.acceptable = <<>>], acceptable, ord)
        rejectable == c1.rejectable
        c2 == RejectLoop([c1 EXCEPT !.rejectable = <<>>, !.rejectableIDs = {}],
                         rejectable, ord)
    IN [cf |-> c2, acceptable |-> acceptable, rejectable |-> rejectable]

(***************************************************************************)
(* Transaction status (vms/avm Tx)                                         *)
(***************************************************************************)

\* Tx.Accept: fails, changing nothing, unless the transaction is Processing
TxAccept(st, t) == IF st[t] # Processing THEN st ELSE [st EXCEPT ![t] = Accepted]

\* Tx.Reject: setStatus(Rejected)
TxReject(st, t) == [st EXCEPT ![t] = Rejected]

RECURSIVE ApplyAccepts(_, _)
ApplyAccepts(st, list) ==
    IF list = <<>> THEN st ELSE ApplyAccepts(TxAccept(st, Head(list)), Tail(list))

RECURSIVE ApplyRejects(_, _)
ApplyRejects(st, list) ==
    IF list = <<>> THEN st ELSE ApplyRejects(TxReject(st, Head(list)), Tail(list))

(***************************************************************************)
(* Universe of the DAG engine specification                                *)
(***************************************************************************)

\* Vertices the node may hear of.  Parents have lower positions in the
\* acyclic order 1, 5, 6, 2, 3, 4.
VtxIDs == {1, 2, 3, 4, 5, 6}

\* Vertex.Parents of every vertex
ParentsV == << <<>>, <<1>>, <<2, 5>>, <<1, 5>>, <<>>, <<>> >>

\* Vertex.Txs of every vertex
TxsV == << <<1>>, <<1, 4>>, <<3>>, <<4>>, <<4>>, <<2>> >>

\* Transactions of the DAG
TxIDs == {1, 2, 3, 4}

\* Tx.InputIDs: transactions 1 and 2 spend the same input, and so do 3 and 4
InputIDsV == << {1}, {1}, {2}, {2} >>

\* The validators sampled by a poll
Voters == {1, 2}

\* Parameters
Alpha == Cardinality(Voters)
BetaVirtuous == Alpha - 1
BetaRogue == BetaVirtuous + 1

\* Most vertices a validator names in one chit
MaxChit == 1

Decided(st) == st \in {Accepted, Rejected}

(***************************************************************************)
(* The conflict graph behind Topological (snowstorm.Consensus)             *)
(***************************************************************************)

NewDirected == [txs |-> {}, preferred |-> {}, successes |-> [t \in {} |-> 0]]

\* Conflicts: the processing transactions whose inputs intersect those of t
CgConflicts(g, t) == {u \in g.txs \ {t} : InputIDsV[u] \cap InputIDsV[t] # {}}

\* Virtuous: the transactions in singleton conflict sets
CgVirtuous(g) == {t \in g.txs : CgConflicts(g, t) = {}}

\* Preferences
CgPreferences(g) == g.preferred

\* Add: a second add is a no-op; a transaction that conflicts with an accepted
\* one goes straight to Rejected; a newcomer is preferred iff it is the sole
\* member of its conflict set
CgAdd(w, t) ==
    IF t \in w.cg.txs THEN w
    ELSE IF \E u \in TxIDs \ {t} :
                w.txStatus[u] = Accepted /\ InputIDsV[u] \cap InputIDsV[t] # {}
    THEN [w EXCEPT !.txStatus = TxReject(@, t)]
    ELSE [w EXCEPT !.cg =
            [txs |-> @.txs \cup {t},
             preferred |-> IF CgConflicts(@, t) = {} THEN @.preferred \cup {t} ELSE @.preferred,
             successes |-> [x \in @.txs \cup {t} |-> IF x = t THEN 0 ELSE @.successes[x]]]]

\* The counters and preferences after a poll in which the transactions of
\* votes reached alpha
CgCount(g, votes) ==
    LET won == votes \cap g.txs IN
    [txs |-> g.txs,
     preferred |-> (g.preferred \ UNION {CgConflicts(g, t) : t \in won}) \cup won,
     successes |-> [t \in g.txs |-> IF t \in won THEN g.successes[t] + 1 ELSE 0]]

\* The transactions a poll makes acceptable
CgAcceptable(g, votes) ==
    {t \in votes \cap g.txs :
        \/ CgConflicts(g, t) = {} /\ g.successes[t] >= BetaVirtuous
        \/ g.successes[t] >= BetaRogue}

\* RecordPoll: count, accept what reached its threshold and reject its rivals
CgRecordPoll(w, votes) ==
    LET g1 == CgCount(w.cg, votes)
        acc == CgAcceptable(g1, votes)
        rej == UNION {CgConflicts(g1, t) : t \in acc}
        left == g1.txs \ (acc \cup rej)
        g2 == [txs |-> left,
               preferred |-> g1.preferred \cap left,
               successes |-> [t \in left |-> g1.successes[t]]]
        st == ApplyRejects(ApplyAccepts(w.txStatus, SetToSeq(acc, <<1, 2, 3, 4>>)),
                           SetToSeq(rej, <<1, 2, 3, 4>>))
    IN [w EXCEPT !.cg = g2, !.txStatus = st]

(***************************************************************************)
(* Vertices (vertex.Accept, vertex.Reject) and the manager's edge          *)
(***************************************************************************)

\* vertex.Reject
VertexReject(w, v) ==
    [w EXCEPT !.vtxStatus[v] = Rejected,
              !.hooks = Append(@, [op |-> "Reject", vtx |-> v])]

\* vertex.Accept, with the parents left in the edge
VertexAcceptKeepParents(w, v) ==
    [w EXCEPT !.vtxStatus[v] = Accepted,
              !.edge = @ \cup {v},
              !.hooks = Append(@, [op |-> "Accept", vtx |-> v])]

\* vertex.Accept: the parents leave the edge, the vertex enters it and the
\* edge is saved
VertexAccept(w, v) ==
    [w EXCEPT !.vtxStatus[v] = Accepted,
              !.edge = (@ \ Range(ParentsV[v])) \cup {v},
              !.hooks = Append(@, [op |-> "Accept", vtx |-> v])]

(***************************************************************************)
(* Topological                                                             *)
(***************************************************************************)

EmptyCache == [k \in {} |-> FALSE]

\* Nothing was accepted or rejected and no hook was invoked
NoCall == [accepted |-> {}, rejected |-> {}, hooks |-> <<>>]

NewTopological ==
    [ nodes           |-> {},
      preferred       |-> {},
      virtuous        |-> {},
      orphans         |-> {},
      frontier        |-> {},
      preferenceCache |-> EmptyCache,
      virtuousCache   |-> EmptyCache ]

\* m[k] of a Go map of booleans: false for a missing key
CacheGet(m, k) == IF k \in DOMAIN m THEN m[k] ELSE FALSE

CachePut(m, k, b) == [x \in (DOMAIN m) \cup {k} |-> IF x = k THEN b ELSE m[x]]

\* update, with no case for a decided vertex
StatusSwitchNever(w, v) == FALSE

\* update, the switch on the status of the vertex: a decided vertex is only
\* cached
StatusSwitch(w, v) == Decided(w.vtxStatus[v])

\* update, the case of a decided vertex
UpdateDecided(w, v) ==
    IF w.vtxStatus[v] = Accepted
    THEN [w EXCEPT !.preferred = @ \cup {v},
                   !.virtuous = @ \cup {v},
                   !.frontier = @ \cup {v},
                   !.preferenceCache = CachePut(@, v, TRUE),
                   !.virtuousCache = CachePut(@, v, TRUE)]
    ELSE [w EXCEPT !.preferenceCache = CachePut(@, v, FALSE),
                   !.virtuousCache = CachePut(@, v, FALSE)]

\* update, the loop over the transactions of the vertex
TxFlags(w, v) ==
    LET txs == Range(TxsV[v])
        open == {t \in txs : w.txStatus[t] # Accepted}
        rejectable == \E t \in txs : w.txStatus[t] = Rejected
    IN [acceptable |-> open = {},
        rejectable |-> rejectable,
        preferred  |-> ~rejectable /\ open \subseteq CgPreferences(w.cg),
        virtuous   |-> ~rejectable /\ open \subseteq CgVirtuous(w.cg)]

\* update, "check my parent statuses": some parent is Rejected
ParentRejected(w, v) == \E p \in Range(ParentsV[v]) : w.vtxStatus[p] = Rejected

\* update, "check my parent statuses" with the check left out
ParentsAcceptedUnchecked(w, v) == TRUE

\* update, "check my parent statuses": every parent is Accepted
ParentsAccepted(w, v) == \A p \in Range(ParentsV[v]) : w.vtxStatus[p] = Accepted

\* update, the vertex is rejected because a parent is
RejectByParent(w, v) ==
    LET w1 == VertexReject(w, v) IN
    [w1 EXCEPT !.rejected = @ \cup {v},
               !.nodes = @ \ {v},
               !.preferenceCache = CachePut(@, v, FALSE),
               !.virtuousCache = CachePut(@, v, FALSE)]

\* update, the frontier and the preferred and virtuous sets
UpdateSets(w, v, preferred, virtuous) ==
    LET parents == Range(ParentsV[v])
        w1 == [w EXCEPT !.frontier = (@ \ parents) \cup {v},
                        !.preferenceCache = CachePut(@, v, preferred),
                        !.virtuousCache = CachePut(@, v, virtuous)]
        w2 == IF preferred
              THEN [w1 EXCEPT !.preferred = (@ \cup {v}) \ parents,
                              !.orphans = @ \ {t \in Range(TxsV[v]) : w.txStatus[t] # Accepted}]
              ELSE w1
    IN IF virtuous THEN [w2 EXCEPT !.virtuous = (@ \cup {v}) \ parents] ELSE w2

\* update, the final switch: accept an acceptable vertex, reject a rejectable one
Decide(w, v, acceptable, rejectable) ==
    IF acceptable
    THEN [VertexAccept(w, v) EXCEPT !.accepted = @ \cup {v}, !.nodes = @ \ {v}]
    ELSE IF rejectable
    THEN [VertexReject(w, v) EXCEPT !.rejected = @ \cup {v}, !.nodes = @ \ {v}]
    ELSE w

RECURSIVE Update(_, _)
RECURSIVE UpdateParents(_, _)

\* update, "update all of my dependencies"
UpdateParents(w, parentIDs) ==
    IF parentIDs = <<>> THEN w
    ELSE UpdateParents(Update(w, Head(parentIDs)), Tail(parentIDs))

\* Topological.update
Update(w, v) ==
    IF v \in DOMAIN w.preferenceCache THEN w
    ELSE IF StatusSwitch(w, v) THEN UpdateDecided(w, v)
    ELSE LET f == TxFlags(w, v)
             w1 == UpdateParents(w, ParentsV[v])
             preferred == f.preferred
                          /\ \A p \in Range(ParentsV[v]) : CacheGet(w1.preferenceCache, p)
             virtuous == f.virtuous
                         /\ \A p \in Range(ParentsV[v]) : CacheGet(w1.virtuousCache, p)
         IN IF ParentRejected(w1, v) THEN RejectByParent(w1, v)
            ELSE Decide(UpdateSets(w1, v, preferred, virtuous), v,
                        f.acceptable /\ ParentsAccepted(w1, v), f.rejectable)

\* updateFrontiers, the loop over the previous frontier, stopping after the
\* first vertex
UpdateAllFirstOnly(w, vts) ==
    IF vts = <<>> THEN w ELSE Update(w, Head(vts))

\* updateFrontiers, the loop over the previous frontier
RECURSIVE UpdateAll(_, _)
UpdateAll(w, vts) ==
    IF vts = <<>> THEN w ELSE UpdateAll(Update(w, Head(vts)), Tail(vts))

\* Topological.updateFrontiers, ranging over the frontier in order ord
UpdateFrontiers(w, ord) ==
    LET vts == SetToSeq(w.frontier, ord)
        w1 == [w EXCEPT !.preferred = {},
                        !.virtuous = {},
                        !.orphans = CgVirtuous(w.cg),
                        !.frontier = {},
                        !.preferenceCache = EmptyCache,
                        !.virtuousCache = EmptyCache]
    IN UpdateAll(w1, vts)

\* Topological.Add
RECURSIVE AddTxs(_, _)
AddTxs(w, txs) ==
    IF txs = <<>> THEN w
    ELSE AddTxs(IF Decided(w.txStatus[Head(txs)]) THEN w ELSE CgAdd(w, Head(txs)), Tail(txs))

Add(w, v) ==
    IF Decided(w.vtxStatus[v]) \/ v \in w.nodes THEN w
    ELSE LET w1 == AddTxs(w, TxsV[v]) IN
         Update([w1 EXCEPT !.nodes = @ \cup {v}], v)

(***************************************************************************)
(* Topological.RecordPoll                                                  *)
(***************************************************************************)

\* The zero value of a kahnNode
NoKahn == [inDegree |-> 0, votes |-> {}]

NoKahns == [x \in {} |-> NoKahn]

KahnGet(kahns, k) == IF k \in DOMAIN kahns THEN kahns[k] ELSE NoKahn

KahnPut(kahns, k, n) == [x \in (DOMAIN kahns) \cup {k} |-> IF x = k THEN n ELSE kahns[x]]

\* The responses of a poll: vertex -> the validators that named it
Responses(chits) ==
    [v \in UNION {chits[i] : i \in Voters} |-> {i \in Voters : v \in chits[i]}]

\* RecordPoll, the loop that counts the validators that voted at all
RECURSIVE PartialVotes(_, _, _)
PartialVotes(responses, list, partialVotes) ==
    IF list = <<>> THEN partialVotes
    ELSE LET u == partialVotes \cup responses[Head(list)] IN
         IF Cardinality(u) >= Alpha THEN u
         ELSE PartialVotes(responses, Tail(list), u)

\* The walk entering every parent, decided or not
AllParents(w, parentIDs) == parentIDs

\* The parents that are not decided, in the order of the parent list
LiveParents(w, parentIDs) == SelectSeq(parentIDs, LAMBDA p : ~Decided(w.vtxStatus[p]))

\* markAncestorInDegrees, the loop over the stack
RECURSIVE MarkLoop(_, _, _)
MarkLoop(w, k, frontier) ==
    IF frontier = <<>> THEN k
    ELSE LET newLen == Len(frontier) - 1
             current == frontier[Len(frontier)]
             rest == SubSeq(frontier, 1, newLen)
             alreadySeen == current \in DOMAIN k.kahns
             kahn == [KahnGet(k.kahns, current) EXCEPT !.inDegree = @ + 1]
             k1 == [kahns |-> KahnPut(k.kahns, current, kahn),
                    leaves |-> IF kahn.inDegree = 1 THEN k.leaves \ {current} ELSE k.leaves]
         IN MarkLoop(w, k1, IF alreadySeen THEN rest
                            ELSE rest \o LiveParents(w, ParentsV[current]))

\* Topological.markAncestorInDegrees
MarkAncestorInDegrees(w, k, parentIDs) == MarkLoop(w, k, LiveParents(w, parentIDs))

\* Topological.calculateInDegree, over the responses in the order of list
RECURSIVE CalculateInDegree(_, _, _, _)
CalculateInDegree(w, responses, list, k) ==
    IF list = <<>> THEN k
    ELSE LET vote == Head(list) IN
         IF vote \notin w.nodes THEN CalculateInDegree(w, responses, Tail(list), k)
         ELSE LET previouslySeen == vote \in DOMAIN k.kahns
                  kahn == [KahnGet(k.kahns, vote) EXCEPT !.votes = @ \cup responses[vote]]
                  k1 == [k EXCEPT !.kahns = KahnPut(@, vote, kahn)]
                  k2 == IF previouslySeen THEN k1
                        ELSE MarkAncestorInDegrees(w, [k1 EXCEPT !.leaves = @ \cup {vote}],
                                                   ParentsV[vote])
              IN CalculateInDegree(w, responses, Tail(list), k2)

\* pushVotes, the loop over the parents of a leaf, with every parent made a
\* leaf whatever its in-degree
RECURSIVE PushParentsEager(_, _, _)
PushParentsEager(p, votes, parentIDs) ==
    IF parentIDs = <<>> THEN p
    ELSE LET parentID == Head(parentIDs) IN
         IF parentID \notin DOMAIN p.kahns THEN PushParentsEager(p, votes, Tail(parentIDs))
         ELSE LET depNode == [inDegree |-> p.kahns[parentID].inDegree - 1,
                              votes |-> p.kahns[parentID].votes \cup votes]
              IN PushParentsEager([p EXCEPT !.kahns = KahnPut(@, parentID, depNode),
                                            !.leaves = Append(@, parentID)],
                                  votes, Tail(parentIDs))

\* pushVotes, the loop over the parents of a leaf
RECURSIVE PushParents(_, _, _)
PushParents(p, votes, parentIDs) ==
    IF parentIDs = <<>> THEN p
    ELSE LET parentID == Head(parentIDs) IN
         IF parentID \notin DOMAIN p.kahns THEN PushParents(p, votes, Tail(parentIDs))
         ELSE LET depNode == [inDegree |-> p.kahns[parentID].inDegree - 1,
                              votes |-> p.kahns[parentID].votes \cup votes]
              IN PushParents([p EXCEPT !.kahns = KahnPut(@, parentID, depNode),
                                       !.leaves = IF depNode.inDegree = 0
                                                  THEN Append(@, parentID) ELSE @],
                             votes, Tail(parentIDs))

\* pushVotes, the body of the loop over the leaves: the last leaf is taken
PushStep(w, p) ==
    LET leaf == p.leaves[Len(p.leaves)]
        p1 == [p EXCEPT !.leaves = SubSeq(@, 1, Len(@) - 1)]
        kahn == KahnGet(p.kahns, leaf)
    IN IF leaf \notin w.nodes THEN p1
       ELSE LET txs == Range(TxsV[leaf])
                p2 == [p1 EXCEPT
                         !.votes = [t \in (DOMAIN @) \cup txs |->
                                       IF t \in txs THEN MapGet(@, t) \cup kahn.votes
                                       ELSE @[t]],
                         !.txConflicts = [t \in (DOMAIN @) \cup txs |->
                                       IF t \in DOMAIN @ THEN @[t]
                                       ELSE CgConflicts(w.cg, t)]]
            IN PushParents(p2, kahn.votes, ParentsV[leaf])

\* pushVotes, the loop over the leaves
RECURSIVE PushLoop(_, _)
PushLoop(w, p) ==
    IF p.leaves = <<>> THEN p ELSE PushLoop(w, PushStep(w, p))

\* pushVotes, the leaves in the order in which the loop takes them
RECURSIVE PushOrder(_, _)
PushOrder(w, p) ==
    IF p.leaves = <<>> THEN <<>>
    ELSE <<p.leaves[Len(p.leaves)]>> \o PushOrder(w, PushStep(w, p))

\* pushVotes, the votes of the transactions in the list cs
RECURSIVE UnionVotes(_, _)
UnionVotes(votes, cs) ==
    IF cs = <<>> THEN {} ELSE MapGet(votes, Head(cs)) \cup UnionVotes(votes, Tail(cs))

\* pushVotes with no votes taken for conflicting
ConflictingVotesNone(votes, txConflicts, txList, ord) == EmptyMap

\* pushVotes, the bag of votes for conflicting transactions
RECURSIVE ConflictingVotes(_, _, _, _)
ConflictingVotes(votes, txConflicts, txList, ord) ==
    IF txList = <<>> THEN EmptyMap
    ELSE MapPut(ConflictingVotes(votes, txConflicts, Tail(txList), ord), Head(txList),
                UnionVotes(votes, SetToSeq(txConflicts[Head(txList)], ord)))

\* pushVotes, votes.Difference(&conflictingVotes) after the loop has ended in
\* p: the voters left to every transaction
VotesDifference(p, conflictingVotes) ==
    [t \in DOMAIN p.votes |-> p.votes[t] \ MapGet(conflictingVotes, t)]

\* pushVotes up to the bag: the voters of every transaction that are not
\* voters of a conflicting transaction
NetVotes(w, kahnNodes, leaves, ord) ==
    LET p == PushLoop(w, [kahns |-> kahnNodes, leaves |-> leaves,
                          votes |-> EmptyMap, txConflicts |-> EmptyMap])
    IN VotesDifference(p, ConflictingVotes(p.votes, p.txConflicts,
                                           SetToSeq(DOMAIN p.txConflicts, ord), ord))

\* votes.Bag(threshold): the transactions with threshold voters or more
VotesBag(votes, threshold) == {t \in DOMAIN votes : Cardinality(votes[t]) >= threshold}

\* pushVotes with a threshold of alpha - 1 votes
PushVotesLowThreshold(w, kahnNodes, leaves, ord) ==
    VotesBag(NetVotes(w, kahnNodes, leaves, ord), Alpha - 1)

\* Topological.pushVotes: the transactions left with alpha votes
PushVotes(w, kahnNodes, leaves, ord) ==
    VotesBag(NetVotes(w, kahnNodes, leaves, ord), Alpha)

\* RecordPoll up to its call of the conflict graph: the poll is recorded with
\* no votes if fewer than alpha validators voted, and with the pushed votes
\* otherwise
RecordVotes(w, responses, ordR, ordL, ordT) ==
    LET list == SetToSeq(DOMAIN responses, ordR) IN
    IF Cardinality(PartialVotes(responses, list, {})) < Alpha
    THEN CgRecordPoll(w, {})
    ELSE LET k == CalculateInDegree(w, responses, list, [kahns |-> NoKahns, leaves |-> {}])
         IN CgRecordPoll(w, PushVotes(w, k.kahns, SetToSeq(k.leaves, ordL), ordT))

\* RecordPoll goes on to updateFrontiers: alpha validators voted and the
\* conflict graph reports a change
Traverses(w, responses, ordR, ordL, ordT) ==
    LET w1 == RecordVotes(w, responses, ordR, ordL, ordT) IN
    /\ Cardinality(PartialVotes(responses, SetToSeq(DOMAIN responses, ordR), {})) >= Alpha
    /\ (w1.cg # w.cg \/ w1.txStatus # w.txStatus)

\* Topological.RecordPoll.  ordR, ordL, ordT and ordF are the orders in which
\* the responses, the leaves, the transactions and the frontier are ranged over
RecordPoll(w, responses, ordR, ordL, ordT, ordF) ==
    LET w1 == RecordVotes(w, responses, ordR, ordL, ordT) IN
    IF Traverses(w, responses, ordR, ordL, ordT) THEN UpdateFrontiers(w1, ordF) ELSE w1

\* Topological.Initialize
Initialize(w, frontier, ord) ==
    UpdateFrontiers([w EXCEPT !.nodes = {}, !.cg = NewDirected, !.frontier = frontier], ord)

(***************************************************************************)
(* Bootstrapping jobs                                                      *)
(***************************************************************************)

\* vertexJob.MissingDependencies with no parent reported missing
MissingDependenciesNone(w, v) == {}

\* vertexJob.MissingDependencies
MissingDependencies(w, v) == {p \in Range(ParentsV[v]) : w.vtxStatus[p] # Accepted}

\* vertexJob.Execute without the check of the missing dependencies
ExecuteUnblocked(w, v) ==
    IF \E t \in Range(TxsV[v]) : w.txStatus[t] # Accepted THEN w
    ELSE IF w.vtxStatus[v] = Processing THEN VertexAccept(w, v)
    ELSE w

\* vertexJob.Execute
Execute(w, v) ==
    IF MissingDependencies(w, v) # {} THEN w
    ELSE IF \E t \in Range(TxsV[v]) : w.txStatus[t] # Accepted THEN w
    ELSE IF w.vtxStatus[v] = Processing THEN VertexAccept(w, v)
    ELSE w

\* What TxManager.GetTx returns for a transaction: the transaction, or an
\* error with no transaction (TestTxManager), or an error next to a transaction
GetTxResults == {"tx", "nil and error", "tx and error"}

\* vertexJob.Execute, the loop over the transactions: the first transaction
\* that is not found or not Accepted ends it.  The error for a transaction
\* that is not found is made of tx.ID(), a call on nil when GetTx returned no
\* transaction.
RECURSIVE CheckTxs(_, _, _)
CheckTxs(w, txs, getTx) ==
    IF txs = <<>> THEN "nil"
    ELSE IF getTx[Head(txs)] = "nil and error" THEN "panic"
    ELSE IF getTx[Head(txs)] = "tx and error" THEN "error"
    ELSE IF w.txStatus[Head(txs)] # Accepted THEN "error"
    ELSE CheckTxs(w, Tail(txs), getTx)

\* How vertexJob.Execute ends when GetTx answers as getTx says
ExecuteEnds(w, v, getTx) ==
    IF MissingDependencies(w, v) # {} THEN "error"
    ELSE IF CheckTxs(w, TxsV[v], getTx) # "nil" THEN CheckTxs(w, TxsV[v], getTx)
    ELSE IF w.vtxStatus[v] \in {Unknown, Rejected} THEN "error"
    ELSE "nil"

\* vertexJob.Execute when GetTx answers as getTx says
ExecuteWith(w, v, getTx) ==
    IF ExecuteEnds(w, v, getTx) = "nil" THEN Execute(w, v) ELSE w

\* The transaction job: accept the transaction
ExecuteTx(w, t) == [w EXCEPT !.txStatus = TxAccept(@, t)]

(***************************************************************************)
(* The Transitive engine: polls, blocked jobs, voter, issuer, handlers     *)
(***************************************************************************)

\* The peers that send messages: the validators every poll samples and one
\* peer that no poll samples
Peers == Voters \cup {Cardinality(Voters) + 1}

\* Parameters.ConcurrentRepolls
ConcurrentRepolls == 1

\* Most request ids the engine allocates
MaxPoll == 3

\* Most polls outstanding at the end of an operation
MaxOutstanding == 2

\* Most jobs blocked at the end of an operation
MaxBlocked == 2

\* The limits of a run: the request ids the engine allocates, the jobs
\* left blocked by an operation, and the request ids that peers answer.
\* A run has many polls and no job left blocked, or blocked jobs and
\* answers to its first poll only.
Limits ==
    {[polls |-> MaxPoll, blocked |-> 0, answered |-> MaxPoll],
     [polls |-> MaxPoll - 1, blocked |-> MaxBlocked, answered |-> 1]}

\* What a validator may send the engine as its chit
EngineChits == {{}, {3}, {6}}

\* The sets of transactions whose Verify may fail
InvalidChoices == {{}, {4}}

\* The transactions VM.GetTx may still return during one operation: all of
\* them, or none once the VM dropped its references
VMChoices == {TxIDs, {}}

\* Vertex.Height: one more than the greatest height of a parent
RECURSIVE Height(_)
Height(v) ==
    IF ParentsV[v] = <<>> THEN 1
    ELSE 1 + (CHOOSE h \in {Height(p) : p \in Range(ParentsV[v])} :
                \A p \in Range(ParentsV[v]) : Height(p) <= h)

\* The engine after Initialize
NewTransitive ==
    [ processing  |-> {},      \* issued, undecided vertices kept in memory
      pinnedTxs   |-> {},      \* txManager.pinnedTxs
      polls       |-> <<>>,    \* request id -> poll
      requestID   |-> 0,
      jobs        |-> <<>>,    \* the blocked jobs, by identity
      vtxBlocked  |-> <<>>,    \* vertex id -> the jobs registered under it
      pending     |-> {},      \* vertices whose issuer waits
      outstanding |-> {},      \* vertices requested from a peer
      errs        |-> FALSE,
      invalid     |-> {} ]     \* the transactions whose Verify fails

\* What an operation of the engine does; hist holds the polls recorded so far
NoOutput ==
    [ voted    |-> <<>>,   \* polls.Vote calls
      recorded |-> <<>>,   \* polls recorded into consensus, with their votes
      resolved |-> <<>>,   \* ids fulfilled or abandoned, with the jobs under them
      notified |-> <<>>,   \* Fulfill and Abandon calls on jobs
      queries  |-> <<>>,   \* push and pull queries sent
      batched  |-> {},     \* transactions batched into a new vertex
      orphans  |-> <<>>,   \* Consensus.Orphans as each finished poll saw it
      chits    |-> 0,      \* chits sent by convincers
      hist     |-> {} ]

\* polls.Add
PollsAdd(polls, requestID, vdrs) ==
    IF requestID \in DOMAIN polls THEN polls
    ELSE MapPut(polls, requestID, [polled |-> vdrs, votes |-> EmptyMap])

\* polls.Vote
PollsVote(polls, requestID, vdr, votes) ==
    IF requestID \notin DOMAIN polls \/ vdr \notin polls[requestID].polled
    THEN [polls |-> polls, results |-> EmptyMap, finished |-> FALSE]
    ELSE LET poll == polls[requestID]
             tally == [v \in (DOMAIN poll.votes) \cup votes |->
                          MapGet(poll.votes, v) \cup (IF v \in votes THEN {vdr} ELSE {})]
             polled == poll.polled \ {vdr}
         IN IF polled = {}
            THEN [polls |-> MapDel(polls, requestID), results |-> tally, finished |-> TRUE]
            ELSE [polls |-> MapPut(polls, requestID, [polled |-> polled, votes |-> tally]),
                  results |-> EmptyMap, finished |-> FALSE]

\* Consensus.VertexIssued
VertexIssued(w, v) == Decided(w.vtxStatus[v]) \/ v \in w.nodes

\* Manager.GetVertex and Transitive.GetVertex find the vertices that were parsed
Fetched(w, v) == w.vtxStatus[v] # Unknown

\* vertexHeap.Pop: a vertex of greatest height
HeapTop(heap) ==
    CHOOSE v \in heap : \A u \in heap : Height(u) < Height(v) \/ (Height(u) = Height(v) /\ v <= u)

\* voter.bubbleVotes, the loop over the parents of a vertex that is not issued
RECURSIVE BubbleParents(_, _, _, _)
BubbleParents(w, b, parentIDs, set) ==
    IF parentIDs = <<>> THEN b
    ELSE LET parentID == Head(parentIDs) IN
         IF Fetched(w, parentID)
         THEN BubbleParents(w, [bubbledVotes |-> MapPut(b.bubbledVotes, parentID,
                                                    MapGet(b.bubbledVotes, parentID) \cup set),
                                vertexHeap |-> b.vertexHeap \cup {parentID}],
                            Tail(parentIDs), set)
         ELSE BubbleParents(w, b, Tail(parentIDs), set)

\* voter.bubbleVotes, the loop over the heap
RECURSIVE BubbleLoop(_, _, _)
BubbleLoop(w, votes, b) ==
    IF b.vertexHeap = {} THEN b.bubbledVotes
    ELSE LET vtx == HeapTop(b.vertexHeap)
             set == MapGet(votes, vtx)
             b1 == [b EXCEPT !.vertexHeap = @ \ {vtx}]
         IN IF ~Fetched(w, vtx) \/ Decided(w.vtxStatus[vtx])
            THEN BubbleLoop(w, votes, [b1 EXCEPT !.bubbledVotes = MapDel(@, vtx)])
            ELSE IF VertexIssued(w, vtx)
            THEN BubbleLoop(w, votes, [b1 EXCEPT !.bubbledVotes =
                                            MapPut(@, vtx, MapGet(@, vtx) \cup set)])
            ELSE BubbleLoop(w, votes,
                            BubbleParents(w, [b1 EXCEPT !.bubbledVotes = MapDel(@, vtx)],
                                          ParentsV[vtx], set))

\* voter.bubbleVotes
BubbleVotes(w, votes) ==
    BubbleLoop(w, votes, [bubbledVotes |-> EmptyMap,
                          vertexHeap |-> {v \in DOMAIN votes : Fetched(w, v)}])

\* wrappedTx.Accept and wrappedTx.Reject without UnpinTx
UnpinTxNever(pinnedTxs, st0, st1) == pinnedTxs

\* wrappedTx.Accept and wrappedTx.Reject: the transactions decided between
\* the statuses st0 and st1 are unpinned
UnpinTx(pinnedTxs, st0, st1) ==
    pinnedTxs \ {t \in TxIDs : st1[t] # st0[t] /\ Decided(st1[t])}

\* A query is sent: the request id grows and a poll of the sample is added
SendQuery(s, kind, by) ==
    [s EXCEPT !.te.requestID = @ + 1,
              !.te.polls = PollsAdd(@, s.te.requestID + 1, Voters),
              !.out.queries = Append(@, [requestID |-> s.te.requestID + 1,
                                         kind |-> kind, by |-> by])]

\* Transitive.repoll: pull queries until ConcurrentRepolls polls are outstanding
RECURSIVE Repoll(_, _)
Repoll(s, by) ==
    IF Cardinality(DOMAIN s.te.polls) >= ConcurrentRepolls THEN s
    ELSE Repoll(SendQuery(s, "pull", by), by)

\* Transitive.batch: the transactions that go into a new vertex
Batch(s, txs, force) ==
    [s EXCEPT !.out.batched = @ \cup
        {t \in txs : \/ force
                     \/ /\ CgConflicts(s.w.cg, t) = {}
                        /\ t \notin s.w.cg.txs /\ ~Decided(s.w.txStatus[t])}]

\* Consensus.Quiesce: no virtuous transaction is processing
Quiesce(w) == CgVirtuous(w.cg) = {}

\* voter.Update with a repoll whether or not consensus can quiesce
VoterRepollAlways(s) == Repoll(s, "voter")

\* voter.Update, its end: a repoll unless consensus can quiesce
VoterRepoll(s) ==
    IF Quiesce(s.w) THEN s ELSE Repoll(s, "voter")

\* Manager.SaveVertex(vtx) returns an error: the database is closed
SaveVertexFails(s) == s.mgr.closed

\* voter.Update, after RecordPoll has left consensus in state w1: what was
\* decided is unpinned and leaves processing, the orphans are batched. The
\* first accepted vertex that is not in processing or is not saved ends it.
VoterDecided(s, requestID, votes, w1) ==
    LET missing == w1.accepted \ s.te.processing
        s1 == [s EXCEPT !.w = w1,
                        !.te.pinnedTxs = UnpinTx(@, s.w.txStatus, w1.txStatus),
                        !.out.recorded = Append(@, [requestID |-> requestID, votes |-> votes]),
                        !.out.hist = @ \cup {requestID}]
    IN IF w1.accepted # {} /\ SaveVertexFails(s)
       THEN [s1 EXCEPT !.te.errs = TRUE]
       ELSE IF missing # {}
       THEN [s1 EXCEPT !.te.errs = TRUE,
                       !.te.processing =
                            @ \ {a \in w1.accepted : \A m \in missing : a < m}]
       ELSE VoterRepoll(Batch([s1 EXCEPT !.te.processing = @ \ (w1.accepted \cup w1.rejected),
                                         !.out.orphans = Append(@, w1.orphans)],
                              w1.orphans \cap s.vm, TRUE))

\* voter.Update, after bubbleVotes: the votes are recorded into consensus
VoterRecordPoll(s, requestID, votes) ==
    VoterDecided(s, requestID, votes,
                 RecordPoll([s.w EXCEPT !.accepted = {}, !.rejected = {}, !.hooks = <<>>],
                            votes, <<1, 2, 3, 4, 5, 6>>, <<1, 2, 3, 4, 5, 6>>,
                            <<1, 2, 3, 4, 5, 6>>, <<1, 2, 3, 4, 5, 6>>))

\* voter.Update, after the poll has finished with the given results
VoterRecord(s, requestID, results) ==
    VoterRecordPoll(s, requestID, BubbleVotes(s.w, results))

\* voter.Update recording the poll although it has not finished
VoterUpdateAlwaysRecord(s, job) ==
    IF job.deps # {} \/ s.te.errs THEN s
    ELSE LET r == PollsVote(s.te.polls, job.requestID, job.vdr, job.response) IN
         VoterRecord([s EXCEPT !.te.polls = r.polls], job.requestID, r.results)

\* voter.Update returning after the vote although the poll has finished
VoterUpdateNeverRecord(s, job) ==
    IF job.deps # {} \/ s.te.errs THEN s
    ELSE [s EXCEPT !.te.polls = PollsVote(@, job.requestID, job.vdr, job.response).polls]

\* voter.Update without the test of t.errs.Errored()
VoterUpdateWhenErrored(s, job) ==
    IF job.deps # {} THEN s
    ELSE LET r == PollsVote(s.te.polls, job.requestID, job.vdr, job.response)
             s1 == [s EXCEPT !.te.polls = r.polls,
                             !.out.voted = Append(@, [requestID |-> job.requestID,
                                                      vdr |-> job.vdr])]
         IN IF ~r.finished THEN s1 ELSE VoterRecord(s1, job.requestID, r.results)

\* voter.Update
VoterUpdate(s, job) ==
    IF job.deps # {} \/ s.te.errs THEN s
    ELSE LET r == PollsVote(s.te.polls, job.requestID, job.vdr, job.response)
             s1 == [s EXCEPT !.te.polls = r.polls,
                             !.out.voted = Append(@, [requestID |-> job.requestID,
                                                      vdr |-> job.vdr])]
         IN IF ~r.finished THEN s1 ELSE VoterRecord(s1, job.requestID, r.results)

\* voter.Fulfill
VoterFulfill(s, j, id) ==
    LET s1 == [s EXCEPT !.te.jobs[j].deps = @ \ {id}] IN VoterUpdate(s1, s1.te.jobs[j])

\* voter.Abandon forgetting the vote
VoterAbandonDrop(s, j, id) == [s EXCEPT !.te.jobs[j].deps = @ \ {id}]

\* voter.Abandon
VoterAbandon(s, j, id) == VoterFulfill(s, j, id)

\* convincer.Update: the chits are sent once nothing is missing
ConvincerUpdate(s, job) ==
    IF job.deps # {} \/ s.te.errs THEN s ELSE [s EXCEPT !.out.chits = @ + 1]

\* issuer.Update, after Consensus.Add(vtx) has left consensus in state w1: the
\* vertex is kept in processing, its undecided transactions are pinned, and
\* what the call decided is freed
ConsensusAdded(s, v, w1) ==
    [s EXCEPT !.w = w1,
              !.te.processing = (@ \cup {v}) \ (w1.accepted \cup w1.rejected),
              !.te.pinnedTxs =
                  UnpinTx(@ \cup {t \in Range(TxsV[v]) : ~Decided(s.w.txStatus[t])},
                          s.w.txStatus, w1.txStatus)]

\* Consensus.Add(vtx) called by the issuer
ConsensusAdd(s, v) ==
    ConsensusAdded(s, v, Add([s.w EXCEPT !.accepted = {}, !.rejected = {}, !.hooks = <<>>], v))

RECURSIVE VtxBlockedResolve(_, _, _)
RECURSIVE VtxBlockedNotify(_, _, _, _)
RECURSIVE JobNotify(_, _, _, _)
RECURSIVE IssuerUpdate(_, _)

\* issuer.Update, its end: a repoll once the vertex was issued
IssuerRepoll(s, added) == IF added THEN Repoll(s, "issuer") ELSE s

\* Blocker.Fulfill (abandon = FALSE) and Blocker.Abandon (abandon = TRUE)
VtxBlockedResolve(s, id, abandon) ==
    IF id \notin DOMAIN s.te.vtxBlocked THEN s
    ELSE LET jobs == s.te.vtxBlocked[id] IN
         VtxBlockedNotify([s EXCEPT !.te.vtxBlocked = MapDel(@, id),
                                    !.out.resolved = Append(@, [dep |-> id, jobs |-> jobs])],
                          jobs, id, abandon)

\* Blocker.Fulfill and Blocker.Abandon, the loop over the jobs
VtxBlockedNotify(s, jobs, id, abandon) ==
    IF jobs = <<>> THEN s
    ELSE VtxBlockedNotify(JobNotify(s, Head(jobs), id, abandon), Tail(jobs), id, abandon)

\* job.Fulfill(id) or job.Abandon(id) of job j
JobNotify(s, j, id, abandon) ==
    LET job == s.te.jobs[j]
        s1 == [s EXCEPT !.out.notified = Append(@, [job |-> j, dep |-> id])]
        s2 == [s1 EXCEPT !.te.jobs[j].deps = @ \ {id}]
    IN CASE job.kind = "voter" ->
                IF abandon THEN VoterAbandon(s1, j, id) ELSE VoterFulfill(s1, j, id)
         [] job.kind = "convincer" -> ConvincerUpdate(s2, s2.te.jobs[j])
         [] job.kind = "issuer" /\ ~abandon -> IssuerUpdate(s2, s2.te.jobs[j])
         [] job.kind = "issuer" /\ abandon ->
                IF job.abandoned THEN s1
                ELSE VtxBlockedResolve([s1 EXCEPT !.te.jobs[j].abandoned = TRUE,
                                                  !.te.pending = @ \ {job.vtx}],
                                       job.vtx, TRUE)

\* issuer.Update: a vertex with a transaction that fails Verify is abandoned;
\* any other vertex is added to consensus and push-queried
IssuerUpdate(s, job) ==
    IF job.abandoned \/ job.deps # {} \/ VertexIssued(s.w, job.vtx) \/ s.te.errs THEN s
    ELSE LET s1 == [s EXCEPT !.te.pending = @ \ {job.vtx}]
             txs == Range(TxsV[job.vtx])
             valid == txs \cap s.te.invalid = {}
         IN IssuerRepoll(VtxBlockedResolve(IF valid
                                           THEN SendQuery(ConsensusAdd(s1, job.vtx),
                                                          "push", "issuer")
                                           ELSE Batch(s1, txs \ s.te.invalid, FALSE),
                                           job.vtx, ~valid),
                         valid)

\* Blocker.Register: a job with no dependency is updated at once
VtxBlockedRegister(s, job) ==
    IF job.deps = {}
    THEN CASE job.kind = "voter" -> VoterUpdate(s, job)
           [] job.kind = "convincer" -> ConvincerUpdate(s, job)
           [] job.kind = "issuer" -> IssuerUpdate(s, job)
    ELSE LET j == CHOOSE i \in 1..(Cardinality(DOMAIN s.te.jobs) + 1) :
                        i \notin DOMAIN s.te.jobs
         IN [s EXCEPT !.te.jobs = MapPut(@, j, job),
                      !.te.vtxBlocked =
                          [k \in (DOMAIN @) \cup job.deps |->
                              IF k \in job.deps
                              THEN Append(IF k \in DOMAIN @ THEN @[k] ELSE <<>>, j)
                              ELSE @[k]]]

\* A job of the engine
Job(kind, vtx, vdr, requestID, response, deps) ==
    [kind |-> kind, vtx |-> vtx, vdr |-> vdr, requestID |-> requestID,
     response |-> response, deps |-> deps, abandoned |-> FALSE]

\* Transitive.issue: the issuer of vtx waits for the parents that are not issued
Issue(s, v) ==
    VtxBlockedRegister([s EXCEPT !.te.pending = @ \cup {v}, !.te.outstanding = @ \ {v}],
                       Job("issuer", v, 0, 0, {},
                           {p \in Range(ParentsV[v]) : ~VertexIssued(s.w, p)}))

\* Transitive.issueFrom: issue vtx and its ancestors that are fetched and
\* not issued, and request the parents that are not fetched
RECURSIVE IssueFrom(_, _, _)
IssueFrom(s, queue, issued) ==
    IF queue = <<>> THEN [s |-> s, issued |-> issued]
    ELSE LET v == Head(queue) IN
         IF VertexIssued(s.w, v) THEN IssueFrom(s, Tail(queue), issued)
         ELSE IF v \in s.te.pending THEN IssueFrom(s, Tail(queue), FALSE)
         ELSE LET missing == {p \in Range(ParentsV[v]) : ~Fetched(s.w, p)}
                  s1 == [s EXCEPT !.te.outstanding = @ \cup missing]
              IN IssueFrom(Issue(s1, v),
                           Tail(queue) \o SelectSeq(ParentsV[v], LAMBDA p : Fetched(s.w, p)),
                           issued /\ missing = {})

\* Transitive.issueFromByID: a vertex that is not fetched is requested
IssueFromByID(s, v) ==
    IF ~Fetched(s.w, v)
    THEN [s |-> [s EXCEPT !.te.outstanding = @ \cup {v}], issued |-> FALSE]
    ELSE IssueFrom(s, <<v>>, TRUE)

\* Manager.ParseVertex: the vertex is fetched from now on
ParseVertex(s, v) ==
    IF Fetched(s.w, v) THEN s ELSE [s EXCEPT !.w.vtxStatus[v] = Processing]

\* Transitive.Put
Put(s, v) == IssueFrom(ParseVertex(s, v), <<v>>, TRUE).s

\* Transitive.PullQuery, after issueFromByID: the convincer is registered
PullQueryRegister(r, v) ==
    VtxBlockedRegister(r.s, Job("convincer", v, 0, 0, {}, IF r.issued THEN {} ELSE {v}))

\* Transitive.PullQuery: the chits are sent once the vertex is issued
PullQuery(s, v) == PullQueryRegister(IssueFromByID(s, v), v)

\* Transitive.PushQuery
PushQuery(s, v) == PullQuery(Put(s, v), v)

RECURSIVE ChitsLoop(_, _, _)

\* Transitive.Chits, the loop over the votes after issueFromByID of a vote
ChitsNext(r, votes, deps) ==
    ChitsLoop(r.s, Tail(votes), IF r.issued THEN deps ELSE deps \cup {Head(votes)})

\* Transitive.Chits, the loop over the votes
ChitsLoop(s, votes, deps) ==
    IF votes = <<>> THEN [s |-> s, deps |-> deps]
    ELSE ChitsNext(IssueFromByID(s, Head(votes)), votes, deps)

\* Transitive.Chits, after the loop: the voter is registered
ChitsRegister(r, vdr, requestID, votes) ==
    VtxBlockedRegister(r.s, Job("voter", 0, vdr, requestID, votes, r.deps))

\* Transitive.Chits
Chits(s, vdr, requestID, votes) ==
    ChitsRegister(ChitsLoop(s, SetToSeq(votes, <<1, 2, 3, 4, 5, 6>>), {}),
                  vdr, requestID, votes)

\* Transitive.QueryFailed
QueryFailed(s, vdr, requestID) == Chits(s, vdr, requestID, {})

\* Transitive.GetFailed
GetFailed(s, v) ==
    IF v \notin s.te.outstanding THEN s
    ELSE VtxBlockedResolve([s EXCEPT !.te.outstanding = @ \ {v}], v, TRUE)

(***************************************************************************)
(* The vertex manager: serialisation, parsing, building, verification      *)
(***************************************************************************)

\* The width of an id in bytes; hashing.HashLen is 32
HashLen == 4

codecVersion == 0

epoch == 0

maxVertexSize == 1048576

VtxCacheSize == 2

\* The transactions the VM knows: their bytes and their inputs.  Their ids
\* are ordered as their numbers are.
VMTxs == {1, 2, 3}

TxBytesV == << <<17>>, <<18, 19>>, <<20>> >>

TxInputIDsV == << {1}, {1}, {2} >>

\* ParseTxF of the manager's config: the VM's parser
parseTxF(b) ==
    IF \E t \in VMTxs : TxBytesV[t] = b
    THEN [tx |-> CHOOSE t \in VMTxs : TxBytesV[t] = b, err |-> FALSE]
    ELSE [tx |-> 0, err |-> TRUE]

\* Numbers on the wire are big-endian
BigEndian(n, w) ==
    [i \in 1..w |-> IF w - i >= 4 THEN 0 ELSE (n \div 256 ^ (w - i)) % 256]

\* Numbers are kept exactly below 2^22; a larger one is read as 2^30, more
\* than any length or height at hand
RECURSIVE FromBigEndianTo(_, _)
FromBigEndianTo(b, n) ==
    IF n = 0 THEN 0
    ELSE LET high == FromBigEndianTo(b, n - 1)
         IN  IF high >= 2 ^ 22 THEN 2 ^ 30 ELSE high * 256 + b[n]

FromBigEndian(b) == FromBigEndianTo(b, Len(b))

\* A stand-in for SHA-256: a checksum of the bytes and their places, as wide
\* as a hash
RECURSIVE ChecksumOf(_, _, _)
ChecksumOf(b, lo, hi) ==
    IF lo > hi THEN 0
    ELSE IF lo = hi THEN ((b[lo] + 1) * (lo * lo + 3 * lo + 1)) % 65521
    ELSE (ChecksumOf(b, lo, (lo + hi) \div 2) + ChecksumOf(b, (lo + hi) \div 2 + 1, hi)) % 65521

Checksum(b) == ChecksumOf(b, 1, Len(b))

ComputeHash256Array(b) == BigEndian(Checksum(b), HashLen)

\* ids are compared as their bytes are
LessID(a, b) ==
    \E i \in 1..HashLen : a[i] < b[i] /\ \A j \in 1..(i - 1) : a[j] = b[j]

IsSortedAndUniqueIDs(l) == \A i \in 1..(Len(l) - 1) : LessID(l[i], l[i + 1])

RECURSIVE SortIDs(_)
SortIDs(S) ==
    IF S = {} THEN <<>>
    ELSE LET least == CHOOSE x \in S : \A y \in S : ~LessID(y, x)
         IN  <<least>> \o SortIDs(S \ {least})

isSortedAndUniqueTxs(txs) == \A i \in 1..(Len(txs) - 1) : txs[i] < txs[i + 1]

RECURSIVE sortTxs(_)
sortTxs(txs) ==
    IF txs = <<>> THEN <<>>
    ELSE LET i == CHOOSE k \in 1..Len(txs) : \A j \in 1..Len(txs) : txs[k] <= txs[j]
         IN  <<txs[i]>> \o sortTxs(SubSeq(txs, 1, i - 1) \o SubSeq(txs, i + 1, Len(txs)))

\* wrappers.Packer, writing: an error sticks, and nothing is written past
\* MaxSize
Pack(p, b) ==
    IF p.Err \/ Len(p.Bytes) + Len(b) > maxVertexSize
    THEN [p EXCEPT !.Err = TRUE]
    ELSE [p EXCEPT !.Bytes = @ \o b]

PackShort(p, n) == Pack(p, BigEndian(n, 2))

PackInt(p, n) == Pack(p, BigEndian(n, 4))

PackLong(p, n) == Pack(p, BigEndian(n, 8))

PackBytes(p, b) == Pack(PackInt(p, Len(b)), b)

RECURSIVE PackParentIDs(_, _)
PackParentIDs(p, parentIDs) ==
    IF parentIDs = <<>> THEN p
    ELSE PackParentIDs(Pack(p, Head(parentIDs)), Tail(parentIDs))

RECURSIVE PackTransactions(_, _)
PackTransactions(p, txs) ==
    IF txs = <<>> THEN p
    ELSE PackTransactions(PackBytes(p, TxBytesV[Head(txs)]), Tail(txs))

\* A mutant of Marshal: the height is written as a 32 bit integer
MarshalShortHeight(vtx) ==
    PackTransactions(
      PackInt(
        PackParentIDs(
          PackInt(
            PackInt(
              PackInt(
                Pack(PackShort([Bytes |-> <<>>, Err |-> FALSE], codecVersion), vtx.ChainID),
                vtx.Hght),
              epoch),
            Len(vtx.ParentIDs)),
          vtx.ParentIDs),
        Len(vtx.Transactions)),
      vtx.Transactions)

\* vtx.Marshal(): the packer it returns holds the bytes and the error
Marshal(vtx) ==
    PackTransactions(
      PackInt(
        PackParentIDs(
          PackInt(
            PackInt(
              PackLong(
                Pack(PackShort([Bytes |-> <<>>, Err |-> FALSE], codecVersion), vtx.ChainID),
                vtx.Hght),
              epoch),
            Len(vtx.ParentIDs)),
          vtx.ParentIDs),
        Len(vtx.Transactions)),
      vtx.Transactions)

\* wrappers.Packer, reading: an error sticks, and a read past the end is an
\* error that yields the zero value
UnpackFixedBytes(p, n) ==
    IF p.Err \/ Len(p.Bytes) - p.Offset < n
    THEN [p EXCEPT !.Err = TRUE, !.val = <<>>]
    ELSE [p EXCEPT !.Offset = @ + n, !.val = SubSeq(p.Bytes, p.Offset + 1, p.Offset + n)]

Unpacked(q) == [q EXCEPT !.val = FromBigEndian(q.val)]

UnpackShort(p) == Unpacked(UnpackFixedBytes(p, 2))

UnpackInt(p) == Unpacked(UnpackFixedBytes(p, 4))

UnpackLong(p) == Unpacked(UnpackFixedBytes(p, 8))

UnpackSized(q) == UnpackFixedBytes(q, q.val)

UnpackBytes(p) == UnpackSized(UnpackInt(p))

\* ids.ToID
ToID(b) == IF Len(b) = HashLen THEN b ELSE [i \in 1..HashLen |-> 0]

\* What parseVertex reads, field by field; p.Add(err) for what it refuses
ReadCodec(q) == IF q.val # codecVersion THEN [q EXCEPT !.Err = TRUE] ELSE q

ReadChainID(q) == [q EXCEPT !.ChainID = ToID(q.val)]

ReadHeight(q) == [q EXCEPT !.Hght = q.val]

ReadEpoch(q) == IF q.val # 0 THEN [q EXCEPT !.Err = TRUE] ELSE q

ReadParentID(q) == [q EXCEPT !.ParentIDs = Append(@, ToID(q.val))]

RECURSIVE ReadParentIDs(_, _)
ReadParentIDs(p, i) ==
    IF i > 0 /\ ~p.Err
    THEN ReadParentIDs(ReadParentID(UnpackFixedBytes(p, HashLen)), i - 1)
    ELSE p

ReadTx(q, parsed) ==
    [q EXCEPT !.Err = @ \/ parsed.err, !.Transactions = Append(@, parsed.tx)]

ReadTransaction(q) == ReadTx(q, parseTxF(q.val))

RECURSIVE ReadTransactions(_, _)
ReadTransactions(p, i) ==
    IF i > 0 /\ ~p.Err
    THEN ReadTransactions(ReadTransaction(UnpackBytes(p)), i - 1)
    ELSE p

ReadCounted(q) == ReadParentIDs(q, q.val)

ReadCountedTxs(q) == ReadTransactions(q, q.val)

ReadEnd(q) == IF q.Offset # Len(q.Bytes) THEN [q EXCEPT !.Err = TRUE] ELSE q

NewReader(b) ==
    [ Bytes |-> b, Offset |-> 0, Err |-> FALSE, val |-> 0,
      ChainID |-> <<>>, Hght |-> 0, ParentIDs |-> <<>>, Transactions |-> <<>> ]

\* The reads of parseVertex, in their order
Read(b) ==
    ReadEnd(
      ReadCountedTxs(UnpackInt(
        ReadCounted(UnpackInt(
          ReadEpoch(UnpackInt(
            ReadHeight(UnpackLong(
              ReadChainID(UnpackFixedBytes(
                ReadCodec(UnpackShort(NewReader(b))), HashLen)))))))))))

NoVertex ==
    [ id |-> <<>>, ChainID |-> <<>>, Hght |-> 0, ParentIDs |-> <<>>,
      Transactions |-> <<>>, bytes |-> <<>>, status |-> Unknown ]

\* The vertex parseVertex makes of what it read.  The struct literal leaves
\* status at the zero value of choices.Status.
ReadVertex(q) ==
    [ id |-> ComputeHash256Array(q.Bytes), ChainID |-> q.ChainID, Hght |-> q.Hght,
      ParentIDs |-> q.ParentIDs, Transactions |-> q.Transactions, bytes |-> q.Bytes,
      status |-> Unknown ]

\* cache.LRU: the entries, the most recently used first.  An entry is typed
\* when its value is a *vertex.
LRUPut(cache, key, vtx, typed) ==
    LET rest == SelectSeq(cache, LAMBDA e : e.key # key)
    IN  SubSeq(<<[key |-> key, vtx |-> vtx, typed |-> typed]>> \o rest, 1,
               IF Len(rest) + 1 > VtxCacheSize THEN VtxCacheSize ELSE Len(rest) + 1)

LRUHas(cache, key) == \E i \in 1..Len(cache) : cache[i].key = key

LRUEntry(cache, key) == cache[CHOOSE i \in 1..Len(cache) : cache[i].key = key]

LRUGet(cache, key) ==
    IF LRUHas(cache, key)
    THEN <<LRUEntry(cache, key)>> \o SelectSeq(cache, LAMBDA e : e.key # key)
    ELSE cache

\* Nothing has been called yet
NoResult == [op |-> "none", err |-> FALSE]

\* NewManager(config); config.DB is open
NewManager == [db |-> EmptyMap, vtxCache |-> <<>>, closed |-> FALSE, edge |-> {}]

Parsed(m, q) ==
    IF q.Err THEN [m |-> m, vtx |-> NoVertex, err |-> TRUE]
    ELSE [ m   |-> [m EXCEPT !.vtxCache = LRUPut(@, ComputeHash256Array(q.Bytes),
                                                   ReadVertex(q), TRUE)],
           vtx |-> ReadVertex(q),
           err |-> FALSE ]

\* A mutant of parseVertex: bytes left over after the transactions are accepted
parseVertexUnusedBytes(m, b) ==
    Parsed(m, ReadCountedTxs(UnpackInt(
                ReadCounted(UnpackInt(
                  ReadEpoch(UnpackInt(
                    ReadHeight(UnpackLong(
                      ReadChainID(UnpackFixedBytes(
                        ReadCodec(UnpackShort(NewReader(b))), HashLen)))))))))))

\* m.parseVertex(b), and m.ParseVertex(b) that calls it
parseVertex(m, b) == Parsed(m, Read(b))

Reparsed(r) ==
    IF r.err THEN r
    ELSE [r EXCEPT !.m.vtxCache = LRUPut(@, r.vtx.id, r.vtx, FALSE)]

FromDB(m, vtxID) ==
    IF vtxID \notin DOMAIN m.db THEN [m |-> m, vtx |-> NoVertex, err |-> TRUE]
    ELSE Reparsed(parseVertex(m, m.db[vtxID]))

\* m.getVertex(vtxID).  What it reads from the database it caches as a
\* **vertex, which no later lookup takes for a *vertex.
getVertex(m, vtxID) ==
    IF LRUHas(m.vtxCache, vtxID) /\ LRUEntry(m.vtxCache, vtxID).typed
    THEN [ m |-> [m EXCEPT !.vtxCache = LRUGet(@, vtxID)],
           vtx |-> LRUEntry(m.vtxCache, vtxID).vtx, err |-> FALSE ]
    ELSE FromDB([m EXCEPT !.vtxCache = LRUGet(@, vtxID)], vtxID)

\* m.SaveVertex(vtx)
SaveVertex(m, vtx) ==
    IF m.closed THEN m ELSE [m EXCEPT !.db = MapPut(@, vtx.id, vtx.bytes)]

Max64(a, b) == IF a > b THEN a ELSE b

ParentHeight(height, got) ==
    IF got.err THEN [m |-> got.m, height |-> height, err |-> TRUE]
    ELSE [m |-> got.m, height |-> Max64(height, got.vtx.Hght), err |-> FALSE]

\* The loop of BuildVertex over the parents
RECURSIVE ParentHeights(_, _)
ParentHeights(r, parentIDsList) ==
    IF parentIDsList = <<>> \/ r.err THEN r
    ELSE ParentHeights(ParentHeight(r.height, getVertex(r.m, Head(parentIDsList))),
                       Tail(parentIDsList))

Built(m, vtx, p) ==
    IF p.Err THEN [m |-> m, vtx |-> NoVertex, err |-> TRUE]
    ELSE [ m   |-> [m EXCEPT !.vtxCache =
                       LRUPut(@, ComputeHash256Array(p.Bytes),
                                [vtx EXCEPT !.bytes = p.Bytes,
                                            !.id = ComputeHash256Array(p.Bytes)], TRUE)],
           vtx |-> [vtx EXCEPT !.bytes = p.Bytes, !.id = ComputeHash256Array(p.Bytes)],
           err |-> FALSE ]

BuildMarshal(m, vtx) == Built(m, vtx, Marshal(vtx))

BuildAt(r, chainID, parentIDsList, txs) ==
    IF r.err THEN [m |-> r.m, vtx |-> NoVertex, err |-> TRUE]
    ELSE BuildMarshal(r.m, [ id |-> <<>>, ChainID |-> chainID, Hght |-> r.height + 1,
                             ParentIDs |-> parentIDsList, Transactions |-> txs,
                             bytes |-> <<>>, status |-> Unknown ])

\* A mutant of BuildVertex: an empty list of transactions is accepted
BuildVertexNoTxs(m, chainID, parentIDs, txs) ==
    BuildAt(ParentHeights([m |-> m, height |-> 0, err |-> FALSE], SortIDs(parentIDs)),
            chainID, SortIDs(parentIDs), sortTxs(txs))

\* m.BuildVertex(parentIDs, txs); chainID is m.ctx.ChainID
BuildVertex(m, chainID, parentIDs, txs) ==
    IF Len(txs) = 0 THEN [m |-> m, vtx |-> NoVertex, err |-> TRUE]
    ELSE BuildAt(ParentHeights([m |-> m, height |-> 0, err |-> FALSE], SortIDs(parentIDs)),
                 chainID, SortIDs(parentIDs), sortTxs(txs))

RECURSIVE Conflicting(_, _)
Conflicting(txs, inputIDs) ==
    IF txs = <<>> THEN FALSE
    ELSE \/ TxInputIDsV[Head(txs)] \cap inputIDs # {}
         \/ Conflicting(Tail(txs), inputIDs \cup TxInputIDsV[Head(txs)])

\* A mutant of Verify: a vertex without transactions passes
VerifyNoTxs(vtx) ==
    IF ~IsSortedAndUniqueIDs(vtx.ParentIDs) THEN "errInvalidParents"
    ELSE IF ~isSortedAndUniqueTxs(vtx.Transactions) THEN "errInvalidTxs"
    ELSE IF Conflicting(vtx.Transactions, {}) THEN "errConflictingTxs"
    ELSE "nil"

\* vtx.Verify()
Verify(vtx) ==
    IF ~IsSortedAndUniqueIDs(vtx.ParentIDs) THEN "errInvalidParents"
    ELSE IF Len(vtx.Transactions) = 0 THEN "errNoTxs"
    ELSE IF ~isSortedAndUniqueTxs(vtx.Transactions) THEN "errInvalidTxs"
    ELSE IF Conflicting(vtx.Transactions, {}) THEN "errConflictingTxs"
    ELSE "nil"

(***************************************************************************)
(* The conflict manager driven by its caller                               *)
(***************************************************************************)

NoReturn ==
    [ acc     |-> <<>>,  \* acceptable list returned by the Updateable call just made
      rej     |-> <<>>,  \* rejectable list returned by the Updateable call just made
      prevAcc |-> {},    \* returned as acceptable by the calls before it
      prevRej |-> {},    \* returned as rejectable by the calls before it
      waited  |-> {} ]   \* Accept was called for it while a dependency was not Accepted

\* The bookkeeping once the caller goes on to its next Add or Accept
Seen(r) ==
    [ acc     |-> <<>>,
      rej     |-> <<>>,
      prevAcc |-> r.prevAcc \cup Range(r.acc),
      prevRej |-> r.prevRej \cup Range(r.rej),
      waited  |-> r.waited ]

CInit ==
    /\ c = NewConflicts
    /\ txStatus = [t \in CTxs |-> Processing]
    /\ txDecl = [t \in CTxs |-> NoDecl]
    /\ ret = NoReturn
    /\ ta = NewTopological
    /\ cg = NewDirected
    /\ vtxStatus = [v \in VtxIDs |-> Processing]
    /\ edge = {}
    /\ phase = "conflicts"
    /\ call = NoCall
    /\ te = NewTransitive
    /\ out = [hist |-> {}, lim |-> [polls |-> 0, blocked |-> 0, answered |-> 0]]
    /\ mgr = NewManager
    /\ res = NoResult

\* c.Add(tx) for a transaction that is not processing yet.  Its preclusion
\* lists name processing transactions, its dependencies are not rejected.
CAdd(t) ==
    /\ phase = "conflicts"
    /\ t \notin c.txs
    /\ txStatus[t] = Processing
    /\ t \notin ret.prevAcc \cup ret.prevRej \cup Range(ret.acc) \cup Range(ret.rej)
    /\ \E deps \in SUBSET {d \in CTxs : d < t /\ txStatus[d] # Rejected},
          pb \in SUBSET c.txs, pr \in SUBSET c.txs :
            LET d == [deps |-> deps, precludedBy |-> pb, precludes |-> pr] IN
            /\ txDecl' = [txDecl EXCEPT ![t] = d]
            /\ c' = ConflictsAdd(c, t, d, txStatus)
    /\ ret' = Seen(ret)
    /\ UNCHANGED <<txStatus, tvars, evars, svars>>

Copies(cf, t) ==
    Cardinality({i \in 1..Len(cf.acceptable) : cf.acceptable[i] = t})
    + Cardinality({a \in DOMAIN cf.acceptors : cf.acceptors[a].tx = t})

\* c.Accept(txID)
CAccept(t) ==
    /\ phase = "conflicts"
    /\ Copies(c, t) < MaxAccept
    /\ c' = ConflictsAccept(c, t, txDecl[t], txStatus)
    /\ c' # c
    /\ ret' = [Seen(ret) EXCEPT !.waited =
                    IF \E d \in txDecl[t].deps : txStatus[d] # Accepted THEN @ \cup {t} ELSE @]
    /\ UNCHANGED <<txStatus, txDecl, tvars, evars, svars>>

\* c.Updateable(), after which the caller accepts every acceptable and then
\* rejects every rejectable transaction
CUpdateable ==
    \E ord \in Perms(CTxs) :
        LET r == Updateable(c, ord) IN
        /\ phase = "conflicts"
        /\ c' = r.cf
        /\ txStatus' = ApplyRejects(ApplyAccepts(txStatus, r.acceptable), r.rejectable)
        /\ ret' = [Seen(ret) EXCEPT !.acc = r.acceptable, !.rej = r.rejectable]
        /\ UNCHANGED <<txDecl, tvars, evars, svars>>

CNext ==
    \/ \E t \in CTxs : CAdd(t)
    \/ \E t \in CTxs : CAccept(t)
    \/ CUpdateable

SpecConflicts == CInit /\ [][CNext]_vars

(***************************************************************************)
(* The DAG engine: bootstrapping, then Add and RecordPoll                  *)
(***************************************************************************)

\* What a validator may send as its chit
ChitChoices == {S \in SUBSET VtxIDs : Cardinality(S) <= MaxChit}

\* The state an operation starts from
World ==
    [ nodes           |-> ta.nodes,
      preferred       |-> ta.preferred,
      virtuous        |-> ta.virtuous,
      orphans         |-> ta.orphans,
      frontier        |-> ta.frontier,
      preferenceCache |-> ta.preferenceCache,
      virtuousCache   |-> ta.virtuousCache,
      cg              |-> cg,
      vtxStatus       |-> vtxStatus,
      txStatus        |-> txStatus,
      edge            |-> edge,
      accepted        |-> {},
      rejected        |-> {},
      hooks           |-> <<>> ]

\* The Topological struct of state w
TopologicalOf(w) ==
    [ nodes           |-> w.nodes,
      preferred       |-> w.preferred,
      virtuous        |-> w.virtuous,
      orphans         |-> w.orphans,
      frontier        |-> w.frontier,
      preferenceCache |-> w.preferenceCache,
      virtuousCache   |-> w.virtuousCache ]

\* The operation ends in state w
Returns(w) ==
    /\ ta' = TopologicalOf(w)
    /\ cg' = w.cg
    /\ vtxStatus' = w.vtxStatus
    /\ txStatus' = w.txStatus
    /\ edge' = w.edge
    /\ call' = [accepted |-> w.accepted, rejected |-> w.rejected, hooks |-> w.hooks]

TInit ==
    /\ phase = "bootstrap"
    /\ ta = NewTopological
    /\ cg = NewDirected
    /\ vtxStatus = [v \in VtxIDs |-> Processing]
    /\ txStatus = [t \in TxIDs |-> Processing]
    /\ edge = {}
    /\ call = NoCall
    /\ c = NewConflicts
    /\ txDecl = <<>>
    /\ ret = NoReturn
    /\ te = NewTransitive
    /\ out = [hist |-> {}, lim |-> [polls |-> 0, blocked |-> 0, answered |-> 0]]
    /\ mgr = NewManager
    /\ res = NoResult

\* The bootstrap queue executes the job of a transaction the network accepted
JobTx(t) ==
    /\ phase = "bootstrap"
    /\ txStatus[t] = Processing
    /\ \A u \in TxIDs \ {t} :
          InputIDsV[u] \cap InputIDsV[t] # {} => txStatus[u] # Accepted
    /\ Returns(ExecuteTx(World, t))
    /\ UNCHANGED <<phase, cvars, evars, svars>>

\* The bootstrap queue executes a vertex job
JobVertex(v) ==
    /\ phase = "bootstrap"
    /\ Returns(Execute(World, v))
    /\ UNCHANGED <<phase, cvars, evars, svars>>

\* Bootstrapping is done: consensus starts from the vertices of the edge
FinishBootstrap ==
    /\ phase = "bootstrap"
    /\ phase' = "consensus"
    /\ \E ord \in Perms(edge) : Returns(Initialize(World, edge, ord))
    /\ UNCHANGED <<cvars, evars, svars>>

\* Add(vtx), for a vertex whose parents were issued
TAdd(v) ==
    /\ phase = "consensus"
    /\ \A p \in Range(ParentsV[v]) : p \in ta.nodes \/ Decided(vtxStatus[p])
    /\ Returns(Add(World, v))
    /\ UNCHANGED <<phase, cvars, evars, svars>>

\* The leaves calculateInDegree finds for the responses
PollLeaves(w, responses, ordR) ==
    CalculateInDegree(w, responses, SetToSeq(DOMAIN responses, ordR),
                      [kahns |-> NoKahns, leaves |-> {}]).leaves

\* The transactions pushVotes collects votes for
PollTxs(w, responses, ordR, ordL) ==
    LET k == CalculateInDegree(w, responses, SetToSeq(DOMAIN responses, ordR),
                               [kahns |-> NoKahns, leaves |-> {}])
    IN DOMAIN PushLoop(w, [kahns |-> k.kahns, leaves |-> SetToSeq(k.leaves, ordL),
                           votes |-> EmptyMap, txConflicts |-> EmptyMap]).txConflicts

\* The frontier updateFrontiers ranges over, if the poll gets that far
PollFrontier(w, responses, ordR, ordL, ordT) ==
    IF Traverses(w, responses, ordR, ordL, ordT) THEN w.frontier ELSE {}

\* RecordPoll(responses)
TRecordPoll ==
    /\ phase = "consensus"
    /\ \E chits \in [Voters -> ChitChoices] :
          LET responses == Responses(chits) IN
          \E ordR \in Perms(DOMAIN responses) :
          \E ordL \in Perms(PollLeaves(World, responses, ordR)) :
          \E ordT \in Perms(PollTxs(World, responses, ordR, ordL)) :
          \E ordF \in Perms(PollFrontier(World, responses, ordR, ordL, ordT)) :
                Returns(RecordPoll(World, responses, ordR, ordL, ordT, ordF))
    /\ UNCHANGED <<phase, cvars, evars, svars>>

TNext ==
    \/ \E t \in TxIDs : JobTx(t)
    \/ \E v \in VtxIDs : JobVertex(v)
    \/ FinishBootstrap
    \/ \E v \in VtxIDs : TAdd(v)
    \/ TRecordPoll

Spec == TInit /\ [][TNext]_vars

(***************************************************************************)
(* The Transitive engine driven by its peers                               *)
(***************************************************************************)

\* The state an operation of the engine starts from; vm is what VM.GetTx
\* returns during the operation.  It decides what is batched and nothing of
\* the state the operation ends in, so the actions fix it.
EState(vm) ==
    [w |-> World, te |-> te, vm |-> vm, mgr |-> mgr,
     out |-> [NoOutput EXCEPT !.hist = out.hist]]

\* The operation ends in state s; the jobs no id refers to any more are gone
EReturns(s) ==
    /\ s.te.requestID <= out.lim.polls
    /\ Cardinality(DOMAIN s.te.polls) <= MaxOutstanding
    /\ Returns(s.w)
    /\ te' = [s.te EXCEPT !.jobs =
                [j \in {i \in DOMAIN @ : \E k \in DOMAIN s.te.vtxBlocked :
                                            i \in Range(s.te.vtxBlocked[k])} |-> @[j]]]
    /\ Cardinality(DOMAIN te'.jobs) <= out.lim.blocked
    /\ out' = [out EXCEPT !.hist = s.out.hist]
    /\ UNCHANGED <<phase, cvars, svars>>

EInitial ==
    /\ phase = "engine"
    /\ ta = NewTopological
    /\ cg = NewDirected
    /\ vtxStatus = [v \in VtxIDs |-> Unknown]
    /\ txStatus = [t \in TxIDs |-> Processing]
    /\ edge = {}
    /\ call = NoCall
    /\ c = NewConflicts
    /\ txDecl = <<>>
    /\ ret = NoReturn
    /\ te \in {[NewTransitive EXCEPT !.invalid = i] : i \in InvalidChoices}
    /\ out \in {[hist |-> {}, lim |-> l] : l \in Limits}
    /\ res = NoResult

\* The engine on a manager whose database is open
EInit == EInitial /\ mgr = NewManager

\* PushQuery(vdr, requestID, vtxID, vtx) for a vertex the engine has not seen
EPushQuery(v) ==
    /\ phase = "engine"
    /\ vtxStatus[v] = Unknown
    /\ EReturns(PushQuery(EState(TxIDs), v))

\* Put(vdr, requestID, vtxID, vtx), the answer to a request of the engine
EPut(v) ==
    /\ phase = "engine"
    /\ v \in te.outstanding
    /\ EReturns(Put(EState(TxIDs), v))

\* GetFailed(vdr, requestID) for the request of vertex v
EGetFailed(v) ==
    /\ phase = "engine"
    /\ v \in te.outstanding
    /\ EReturns(GetFailed(EState(TxIDs), v))

\* Chits(vdr, requestID, votes)
EChits(vdr, requestID) ==
    /\ phase = "engine"
    /\ requestID <= te.requestID /\ requestID <= out.lim.answered
    /\ \E votes \in EngineChits :
          EReturns(Chits(EState(TxIDs), vdr, requestID, votes))

\* QueryFailed(vdr, requestID)
EQueryFailed(vdr, requestID) ==
    /\ phase = "engine"
    /\ requestID <= te.requestID /\ requestID <= out.lim.answered
    /\ EReturns(QueryFailed(EState(TxIDs), vdr, requestID))

ENext ==
    \/ \E v \in VtxIDs : EPushQuery(v)
    \/ \E v \in VtxIDs : EPut(v)
    \/ \E v \in VtxIDs : EGetFailed(v)
    \/ \E vdr \in Peers, requestID \in 1..MaxPoll : EChits(vdr, requestID)
    \/ \E vdr \in Peers, requestID \in 1..MaxPoll : EQueryFailed(vdr, requestID)

SpecEngine == EInit /\ [][ENext]_vars

\* The engine on a manager whose database was closed: every write fails
FInit == EInitial /\ mgr = [NewManager EXCEPT !.closed = TRUE]

SpecStore == FInit /\ [][ENext]_vars

(***************************************************************************)
(* The vertex manager driven by the engine                                 *)
(***************************************************************************)

MaxHeight == 2

MaxSaved == 1

\* m.ctx.ChainID
ctxChainID == BigEndian(5, HashLen)

\* Key in the database whose value is the edge: ids.Empty.Bytes()
edgeDBKey == BigEndian(0, HashLen)

NewVertex(height, parentIDs, txs) ==
    [ id |-> <<>>, ChainID |-> ctxChainID, Hght |-> height, ParentIDs |-> parentIDs,
      Transactions |-> txs, bytes |-> <<>>, status |-> Unknown ]

\* The transactions the engine batches into a vertex
BuildTxs == {<<>>, <<1>>, <<3, 1>>}

\* The ids of the two vertices that can be built first, and an id of no vertex
FirstIDs == << ComputeHash256Array(Marshal(NewVertex(1, <<>>, <<1>>)).Bytes),
               ComputeHash256Array(Marshal(NewVertex(1, <<>>, <<1, 3>>)).Bytes) >>

UnknownID == BigEndian(9, HashLen)

\* The vertices peers send: well-formed ones, and ones with parents out of
\* order, without transactions, without parents above the first height
WireVertices ==
    { NewVertex(1, <<>>, <<1>>),
      NewVertex(2, <<FirstIDs[1]>>, <<1, 3>>),
      NewVertex(2, <<SortIDs({FirstIDs[1], FirstIDs[2]})[2],
                     SortIDs({FirstIDs[1], FirstIDs[2]})[1]>>, <<3>>),
      NewVertex(2, <<FirstIDs[1]>>, <<>>),
      NewVertex(2, <<>>, <<1>>) }

\* The bytes of a well-formed vertex, damaged: a byte too many, a byte too
\* few, another codec version, another epoch, a transaction the VM refuses
Damaged(b) ==
    { Append(b, 0),
      SubSeq(b, 1, Len(b) - 1),
      <<0, 1>> \o SubSeq(b, 3, Len(b)),
      SubSeq(b, 1, HashLen + 13) \o <<1>> \o SubSeq(b, HashLen + 15, Len(b)),
      SubSeq(b, 1, Len(b) - 1) \o <<99>> }

\* What peers send
WireBytes ==
    {Marshal(w).Bytes : w \in WireVertices}
        \cup Damaged(Marshal(NewVertex(2, <<FirstIDs[1]>>, <<1, 3>>)).Bytes)

\* The vertices the manager holds in its cache as *vertex
Cached(m) == {m.vtxCache[i].vtx : i \in {k \in 1..Len(m.vtxCache) : m.vtxCache[k].typed}}

KnownIDs(m) ==
    {m.vtxCache[i].key : i \in 1..Len(m.vtxCache)} \cup DOMAIN m.db \cup {UnknownID}

\* A call of the manager returns r
VReturns(op, r) ==
    /\ r.vtx.Hght <= MaxHeight
    /\ mgr' = r.m
    /\ res' = [op |-> op, err |-> r.err]
    /\ UNCHANGED <<txStatus, cvars, tvars, evars>>

VInit ==
    /\ phase = "vertex"
    /\ mgr = NewManager
    /\ res = NoResult
    /\ ta = NewTopological
    /\ cg = NewDirected
    /\ vtxStatus = [v \in VtxIDs |-> Unknown]
    /\ txStatus = [t \in TxIDs |-> Processing]
    /\ edge = {}
    /\ call = NoCall
    /\ c = NewConflicts
    /\ txDecl = <<>>
    /\ ret = NoReturn
    /\ te = NewTransitive
    /\ out = [hist |-> {}, lim |-> [polls |-> 0, blocked |-> 0, answered |-> 0]]

\* m.BuildVertex(parentIDs, txs)
VBuildVertex(parentIDs, txs) ==
    /\ Cardinality(parentIDs) <= 2
    /\ VReturns("BuildVertex", BuildVertex(mgr, ctxChainID, parentIDs, txs))

\* m.ParseVertex(b)
VParseVertex(b) == VReturns("ParseVertex", parseVertex(mgr, b))

\* m.GetVertex(vtxID)
VGetVertex(vtxID) == VReturns("GetVertex", getVertex(mgr, vtxID))

\* m.SaveVertex(vtx) for a vertex the engine holds
VSaveVertex(vtx) ==
    /\ Cardinality((DOMAIN mgr.db \cup {vtx.id}) \ {edgeDBKey}) <= MaxSaved
    /\ mgr' = SaveVertex(mgr, vtx)
    /\ res' = [op |-> "SaveVertex", err |-> FALSE]
    /\ UNCHANGED <<txStatus, cvars, tvars, evars>>

\* vtx.Verify() for a vertex the engine holds
VVerify(vtx) ==
    /\ res' = [op |-> "Verify", err |-> Verify(vtx) # "nil"]
    /\ UNCHANGED <<mgr, txStatus, cvars, tvars, evars>>

VNext ==
    \/ \E parentIDs \in SUBSET KnownIDs(mgr), txs \in BuildTxs : VBuildVertex(parentIDs, txs)
    \/ \E b \in WireBytes : VParseVertex(b)
    \/ \E vtxID \in KnownIDs(mgr) : VGetVertex(vtxID)
    \/ \E vtx \in Cached(mgr) : VSaveVertex(vtx)
    \/ \E vtx \in Cached(mgr) : VVerify(vtx)

SpecVertex == VInit /\ [][VNext]_vars

(***************************************************************************)
(* The vertex manager with vertices that are accepted, driven by the       *)
(* engine                                                                  *)
(***************************************************************************)

\* m.Codec.Marshal(m.edge.List()): the number of ids and the ids
EdgeBytes(edgeSet) ==
    PackParentIDs(PackInt([Bytes |-> <<>>, Err |-> FALSE], Cardinality(edgeSet)),
                  SortIDs(edgeSet)).Bytes

\* m.Codec.Unmarshal(edgeBytes, &edgeList)
EdgeList(b) ==
    {SubSeq(b, 5 + HashLen * (i - 1), 4 + HashLen * i) : i \in 1..((Len(b) - 4) \div HashLen)}

\* m.saveEdge()
saveEdge(m) ==
    IF m.closed THEN m ELSE [m EXCEPT !.db = MapPut(@, edgeDBKey, EdgeBytes(m.edge))]

\* The cache once the vertex it holds under vtx.id as a *vertex is the accepted
\* one: the cache holds the pointer, so it sees the status Accept sets
Shared(cache, vtx) ==
    [i \in 1..Len(cache) |->
        IF cache[i].typed /\ cache[i].key = vtx.id
        THEN [cache[i] EXCEPT !.vtx.status = Accepted] ELSE cache[i]]

\* vtx.Accept()
vertexAccept(m, vtx) ==
    saveEdge([m EXCEPT !.vtxCache = Shared(@, vtx),
                       !.edge = (@ \ Range(vtx.ParentIDs)) \cup {vtx.id}])

\* NewManager(config) over the database of m: the node restarts
Restarted(m) ==
    [ db |-> m.db, vtxCache |-> <<>>, closed |-> m.closed,
      edge |-> IF edgeDBKey \in DOMAIN m.db THEN EdgeList(m.db[edgeDBKey]) ELSE {} ]

\* The engine accepts at most this many vertices in a run
MaxAccepted == 2

\* The ids of vertices the manager knows
KnownVertexIDs(m) == KnownIDs(m) \ {edgeDBKey}

MInit ==
    /\ phase = "manager"
    /\ mgr = NewManager
    /\ res = NoResult
    /\ ta = NewTopological
    /\ cg = NewDirected
    /\ vtxStatus = EmptyMap
    /\ txStatus = [t \in TxIDs |-> Processing]
    /\ edge = {}
    /\ call = NoCall
    /\ c = NewConflicts
    /\ txDecl = <<>>
    /\ ret = NoReturn
    /\ te = NewTransitive
    /\ out = [hist |-> {}, lim |-> [polls |-> 0, blocked |-> 0, answered |-> 0]]

\* vtx.Accept() for a vertex the engine holds whose parents are accepted;
\* vtxStatus is the status of the vertex the engine holds under each id
MAccept(vtx) ==
    /\ Cardinality(DOMAIN vtxStatus) < MaxAccepted
    /\ vtx.id \notin DOMAIN vtxStatus
    /\ \A p \in Range(vtx.ParentIDs) : p \in DOMAIN vtxStatus
    /\ mgr' = vertexAccept(mgr, vtx)
    /\ vtxStatus' = MapPut(vtxStatus, vtx.id, Accepted)
    /\ res' = [op |-> "Accept", err |-> mgr.closed]
    /\ UNCHANGED <<txStatus, cvars, ta, cg, edge, phase, call, evars>>

\* m.SaveVertex(vtx) for a vertex the engine holds
MSaveVertex(vtx) ==
    /\ Cardinality((DOMAIN mgr.db \cup {vtx.id}) \ {edgeDBKey}) <= MaxSaved
    /\ vtx.id \notin DOMAIN mgr.db
    /\ mgr' = SaveVertex(mgr, vtx)
    /\ res' = [op |-> "SaveVertex", err |-> mgr.closed]
    /\ UNCHANGED <<txStatus, cvars, tvars, evars>>

\* The node stops and starts over its database
MRestart ==
    /\ mgr.vtxCache # <<>>
    /\ mgr' = Restarted(mgr)
    /\ res' = [op |-> "NewManager", err |-> FALSE]
    /\ UNCHANGED <<txStatus, cvars, tvars, evars>>

MNext ==
    \/ \E txs \in BuildTxs : VBuildVertex({}, txs)
    \/ \E parentID \in KnownVertexIDs(mgr), txs \in BuildTxs : VBuildVertex({parentID}, txs)
    \/ \E vtxID \in KnownVertexIDs(mgr) : VGetVertex(vtxID)
    \/ \E vtx \in Cached(mgr) : MAccept(vtx)
    \/ \E vtx \in Cached(mgr) : MSaveVertex(vtx)
    \/ MRestart

SpecManager == MInit /\ [][MNext]_vars

(***************************************************************************)
(* The state of the serializer: vertices, statuses and the edge, each      *)
(* behind one cache (state.state)                                          *)
(***************************************************************************)

\* Entries of dbCache
DBCacheSize == 2

\* What dbCache holds: a *innerVertex (nil when the vertex was deleted), a
\* choices.Status, a []ids.ID, or the untyped nil of a cached miss
VertexValue(b) == [type |-> "vertex", nil |-> FALSE, v |-> b]

NilVertex == [type |-> "vertex", nil |-> TRUE, v |-> <<>>]

StatusValue(st) == [type |-> "status", nil |-> FALSE, v |-> <<st>>]

EdgeValue(frontier) == [type |-> "ids", nil |-> FALSE, v |-> frontier]

UntypedNil == [type |-> "nil", nil |-> TRUE, v |-> <<>>]

\* uint32(status) and choices.Status(n)
StatusCodes == <<Unknown, Processing, Rejected, Accepted>>

StatusCode(st) == (CHOOSE i \in 1..4 : StatusCodes[i] = st) - 1

StatusOfCode(n) == IF n < 4 THEN StatusCodes[n + 1] ELSE "Invalid"

\* dbCache.Put and dbCache.Get, the most recently used entry first
DBCachePut(cache, key, val) ==
    LET rest == SelectSeq(cache, LAMBDA e : e.key # key)
    IN  SubSeq(<<[key |-> key, val |-> val]>> \o rest, 1,
               IF Len(rest) + 1 > DBCacheSize THEN DBCacheSize ELSE Len(rest) + 1)

DBCacheHas(cache, key) == \E i \in 1..Len(cache) : cache[i].key = key

DBCacheVal(cache, key) == cache[CHOOSE i \in 1..Len(cache) : cache[i].key = key].val

DBCacheGet(cache, key) ==
    IF DBCacheHas(cache, key)
    THEN <<[key |-> key, val |-> DBCacheVal(cache, key)]>> \o SelectSeq(cache, LAMBDA e : e.key # key)
    ELSE cache

\* The state over an empty, open database
NewState == [dbCache |-> <<>>, db |-> EmptyMap, closed |-> FALSE]

\* db.Put and db.Delete: a closed database refuses the write
DBPut(s, key, bytes) ==
    IF s.closed THEN [s |-> s, err |-> TRUE]
    ELSE [s |-> [s EXCEPT !.db = MapPut(@, key, bytes)], err |-> FALSE]

DBDelete(s, key) ==
    IF s.closed THEN [s |-> s, err |-> TRUE]
    ELSE [s |-> [s EXCEPT !.db = [k \in DOMAIN @ \ {key} |-> @[k]]], err |-> FALSE]

\* db.Get succeeds
DBHas(s, key) == ~s.closed /\ key \in DOMAIN s.db

\* The bytes of the vertices the serializer parses
VertexBytes == {<<7>>, <<8>>}

\* s.Vertex(id)
StateVertex(s, id) ==
    IF DBCacheHas(s.dbCache, id) /\ DBCacheVal(s.dbCache, id).type = "vertex"
    THEN [s |-> [s EXCEPT !.dbCache = DBCacheGet(@, id)], val |-> DBCacheVal(s.dbCache, id)]
    ELSE IF DBHas(s, id) /\ s.db[id] \in VertexBytes
    THEN [s |-> [s EXCEPT !.dbCache = DBCachePut(@, id, VertexValue(s.db[id]))],
          val |-> VertexValue(s.db[id])]
    ELSE [s |-> [s EXCEPT !.dbCache = DBCachePut(@, id, UntypedNil)], val |-> NilVertex]

\* s.SetVertex(id, vtx)
SetVertex(s, id, vtx) ==
    IF vtx.nil THEN DBDelete([s EXCEPT !.dbCache = DBCachePut(@, id, vtx)], id)
    ELSE DBPut([s EXCEPT !.dbCache = DBCachePut(@, id, vtx)], id, vtx.v)

\* The status Status reads from the database
SavedStatus(bytes) ==
    IF Len(bytes) = 4 THEN StatusOfCode(FromBigEndian(bytes)) ELSE Unknown

\* s.Status(id)
StateStatus(s, id) ==
    IF DBCacheHas(s.dbCache, id) /\ DBCacheVal(s.dbCache, id).type = "status"
    THEN [s |-> [s EXCEPT !.dbCache = DBCacheGet(@, id)], val |-> DBCacheVal(s.dbCache, id)]
    ELSE IF DBHas(s, id) /\ Len(s.db[id]) = 4
    THEN [s |-> [s EXCEPT !.dbCache = DBCachePut(@, id, StatusValue(SavedStatus(s.db[id])))],
          val |-> StatusValue(SavedStatus(s.db[id]))]
    ELSE [s |-> [s EXCEPT !.dbCache = DBCachePut(@, id, StatusValue(Unknown))],
          val |-> StatusValue(Unknown)]

\* s.SetStatus(id, status)
SetStatus(s, id, status) ==
    IF status = Unknown
    THEN DBDelete([s EXCEPT !.dbCache = DBCachePut(@, id, StatusValue(status))], id)
    ELSE DBPut([s EXCEPT !.dbCache = DBCachePut(@, id, StatusValue(status))], id,
               BigEndian(StatusCode(status), 4))

\* The frontier Edge reads from the database: the count, then the ids
SavedEdge(bytes) ==
    [i \in 1..FromBigEndian(SubSeq(bytes, 1, 4)) |->
        SubSeq(bytes, 5 + HashLen * (i - 1), 4 + HashLen * i)]

EdgeParses(bytes) ==
    Len(bytes) >= 4 /\ Len(bytes) = 4 + HashLen * FromBigEndian(SubSeq(bytes, 1, 4))

\* s.Edge(id)
StateEdge(s, id) ==
    IF DBCacheHas(s.dbCache, id) /\ DBCacheVal(s.dbCache, id).type = "ids"
    THEN [s |-> [s EXCEPT !.dbCache = DBCacheGet(@, id)], val |-> DBCacheVal(s.dbCache, id)]
    ELSE IF DBHas(s, id) /\ EdgeParses(s.db[id])
    THEN [s |-> [s EXCEPT !.dbCache = DBCachePut(@, id, EdgeValue(SavedEdge(s.db[id])))],
          val |-> EdgeValue(SavedEdge(s.db[id]))]
    ELSE [s |-> [s EXCEPT !.dbCache = DBCachePut(@, id, UntypedNil)], val |-> EdgeValue(<<>>)]

\* s.SetEdge(id, frontier)
SetEdge(s, id, frontier) ==
    IF Len(frontier) = 0
    THEN DBDelete([s EXCEPT !.dbCache = DBCachePut(@, id, EdgeValue(frontier))], id)
    ELSE DBPut([s EXCEPT !.dbCache = DBCachePut(@, id, EdgeValue(frontier))], id,
               PackParentIDs(PackInt([Bytes |-> <<>>, Err |-> FALSE], Len(frontier)),
                             frontier).Bytes)

\* The keys the serializer uses: of a vertex, of its status and of the edge
VertexKey == <<0, 1>>

StatusKey == <<1, 1>>

EdgeKey == <<2>>

\* What the serializer stores
StoredVertices == {VertexValue(b) : b \in VertexBytes} \cup {NilVertex}

StoredStatuses == {Unknown, Processing, Accepted}

StoredEdges == {<<>>, <<BigEndian(1, HashLen)>>, <<BigEndian(1, HashLen), BigEndian(2, HashLen)>>}

DInit ==
    /\ phase = "state"
    /\ mgr = NewState
    /\ res = NoResult
    /\ ta = NewTopological
    /\ cg = NewDirected
    /\ vtxStatus = [v \in VtxIDs |-> Unknown]
    /\ txStatus = [t \in TxIDs |-> Processing]
    /\ edge = {}
    /\ call = NoCall
    /\ c = NewConflicts
    /\ txDecl = <<>>
    /\ ret = NoReturn
    /\ te = NewTransitive
    /\ out = [hist |-> {}, lim |-> [polls |-> 0, blocked |-> 0, answered |-> 0]]

\* A call of the state returns r
DReturns(op, r, err) ==
    /\ mgr' = r.s
    /\ res' = [op |-> op, err |-> err]
    /\ UNCHANGED <<txStatus, cvars, tvars, evars>>

DSetVertex(vtx) == DReturns("SetVertex", SetVertex(mgr, VertexKey, vtx), mgr.closed)

DVertex == DReturns("Vertex", StateVertex(mgr, VertexKey), FALSE)

DSetStatus(status) == DReturns("SetStatus", SetStatus(mgr, StatusKey, status), mgr.closed)

DStatus == DReturns("Status", StateStatus(mgr, StatusKey), FALSE)

DSetEdge(frontier) == DReturns("SetEdge", SetEdge(mgr, EdgeKey, frontier), mgr.closed)

DEdge == DReturns("Edge", StateEdge(mgr, EdgeKey), FALSE)

\* The database is closed under the state
DClose ==
    /\ ~mgr.closed
    /\ mgr' = [mgr EXCEPT !.closed = TRUE]
    /\ res' = [op |-> "Close", err |-> FALSE]
    /\ UNCHANGED <<txStatus, cvars, tvars, evars>>

DNext ==
    \/ \E vtx \in StoredVertices : DSetVertex(vtx)
    \/ DVertex
    \/ \E status \in StoredStatuses : DSetStatus(status)
    \/ DStatus
    \/ \E frontier \in StoredEdges : DSetEdge(frontier)
    \/ DEdge
    \/ DClose

SpecState == DInit /\ [][DNext]_vars

(***************************************************************************)
(* The state of the bootstrap queue behind its caches (prefixedState)      *)
(***************************************************************************)

\* Entries of stackIndexCache and of jobCache
JobCacheSize == 1

\* Largest stack size and the stack indices the queue uses
MaxStack == 2

StackIndices == 0..(MaxStack - 1)

\* The prefixes of the keys
stackSizeID == 0

stackID == 1

jobID == 2

\* The keys in the database
stackSizeKey == <<stackSizeID>>

StackKey(index) == <<stackID>> \o BigEndian(index, 4)

JobKey(id) == <<jobID>> \o id

\* The jobs of the queue, and the parser that makes a job of its bytes
QueueJobs ==
    { [id |-> BigEndian(1, HashLen), bytes |-> <<21>>],
      [id |-> BigEndian(2, HashLen), bytes |-> <<22, 23>>] }

QueueJobIDs == {j.id : j \in QueueJobs}

NoJob == [id |-> <<>>, bytes |-> <<>>]

ParseJob(b) ==
    IF \E j \in QueueJobs : j.bytes = b
    THEN [val |-> CHOOSE j \in QueueJobs : j.bytes = b, err |-> FALSE]
    ELSE [val |-> NoJob, err |-> TRUE]

\* cache.LRU of the queue: Put, Get and Evict, the most recently used first
JobCachePut(cache, key, job) ==
    LET rest == SelectSeq(cache, LAMBDA e : e.key # key)
    IN  SubSeq(<<[key |-> key, job |-> job]>> \o rest, 1,
               IF Len(rest) + 1 > JobCacheSize THEN JobCacheSize ELSE Len(rest) + 1)

JobCacheHas(cache, key) == \E i \in 1..Len(cache) : cache[i].key = key

JobCacheVal(cache, key) == cache[CHOOSE i \in 1..Len(cache) : cache[i].key = key].job

JobCacheGet(cache, key) ==
    IF JobCacheHas(cache, key)
    THEN <<[key |-> key, job |-> JobCacheVal(cache, key)]>> \o SelectSeq(cache, LAMBDA e : e.key # key)
    ELSE cache

JobCacheEvict(cache, key) == SelectSeq(cache, LAMBDA e : e.key # key)

\* The prefixed state over an empty database
NewPrefixedState ==
    [ stackSizeSet |-> FALSE, stackSize |-> 0, stackIndexCache |-> <<>>, jobCache |-> <<>>,
      db |-> EmptyMap ]

\* A result of a call: the state after it, what it returns, whether it fails
Result(ps, val, err) == [ps |-> ps, val |-> val, err |-> err]

\* state.Int, state.Job and db.Has: the reads of the database alone
DBInt(db, key) ==
    IF key \in DOMAIN db /\ Len(db[key]) = 4
    THEN [val |-> FromBigEndian(db[key]), err |-> FALSE]
    ELSE [val |-> 0, err |-> TRUE]

DBJob(db, key) ==
    IF key \in DOMAIN db THEN ParseJob(db[key]) ELSE [val |-> NoJob, err |-> TRUE]

DBHasKey(db, key) == [val |-> key \in DOMAIN db, err |-> FALSE]

\* ps.SetStackSize(db, size); written says whether the database takes the write
SetStackSize(ps, size, written) ==
    IF ~written THEN Result(ps, 0, TRUE)
    ELSE Result([ps EXCEPT !.db = MapPut(@, stackSizeKey, BigEndian(size, 4)),
                           !.stackSizeSet = TRUE, !.stackSize = size], 0, FALSE)

\* ps.StackSize(db)
StackSize(ps) ==
    IF ps.stackSizeSet THEN Result(ps, ps.stackSize, FALSE)
    ELSE Result(ps, DBInt(ps.db, stackSizeKey).val, DBInt(ps.db, stackSizeKey).err)

\* ps.SetStackIndex(db, index, job)
SetStackIndex(ps, index, job, written) ==
    IF ~written THEN Result(ps, 0, TRUE)
    ELSE Result([ps EXCEPT !.db = MapPut(@, StackKey(index), job.bytes),
                           !.stackIndexCache = JobCachePut(@, index, job)], 0, FALSE)

\* ps.DeleteStackIndex(db, index)
DeleteStackIndex(ps, index, written) ==
    IF ~written THEN Result(ps, 0, TRUE)
    ELSE Result([ps EXCEPT !.db = [k \in DOMAIN @ \ {StackKey(index)} |-> @[k]],
                           !.stackIndexCache = JobCacheEvict(@, index)], 0, FALSE)

\* ps.StackIndex(db, index)
StackIndex(ps, index) ==
    IF JobCacheHas(ps.stackIndexCache, index)
    THEN Result([ps EXCEPT !.stackIndexCache = JobCacheGet(@, index)],
                JobCacheVal(ps.stackIndexCache, index), FALSE)
    ELSE IF DBJob(ps.db, StackKey(index)).err THEN Result(ps, NoJob, TRUE)
    ELSE Result([ps EXCEPT !.stackIndexCache =
                               JobCachePut(@, index, DBJob(ps.db, StackKey(index)).val)],
                DBJob(ps.db, StackKey(index)).val, FALSE)

\* ps.SetJob(db, job)
SetJob(ps, job, written) ==
    IF ~written THEN Result(ps, 0, TRUE)
    ELSE Result([ps EXCEPT !.db = MapPut(@, JobKey(job.id), job.bytes),
                           !.jobCache = JobCachePut(@, job.id, job)], 0, FALSE)

\* ps.HasJob(db, id)
HasJob(ps, id) ==
    IF JobCacheHas(ps.jobCache, id)
    THEN Result([ps EXCEPT !.jobCache = JobCacheGet(@, id)], TRUE, FALSE)
    ELSE Result(ps, DBHasKey(ps.db, JobKey(id)).val, FALSE)

\* A mutant of DeleteJob: the job stays in the cache
DeleteJobKeepCached(ps, id, written) ==
    IF ~written THEN Result(ps, 0, TRUE)
    ELSE Result([ps EXCEPT !.db = [k \in DOMAIN @ \ {JobKey(id)} |-> @[k]]], 0, FALSE)

\* ps.DeleteJob(db, id)
DeleteJob(ps, id, written) ==
    IF ~written THEN Result(ps, 0, TRUE)
    ELSE Result([ps EXCEPT !.db = [k \in DOMAIN @ \ {JobKey(id)} |-> @[k]],
                           !.jobCache = JobCacheEvict(@, id)], 0, FALSE)

\* ps.Job(db, id)
JobOf(ps, id) ==
    IF JobCacheHas(ps.jobCache, id)
    THEN Result([ps EXCEPT !.jobCache = JobCacheGet(@, id)], JobCacheVal(ps.jobCache, id), FALSE)
    ELSE Result(ps, DBJob(ps.db, JobKey(id)).val, DBJob(ps.db, JobKey(id)).err)

QInit ==
    /\ phase = "queue"
    /\ mgr = NewPrefixedState
    /\ res = NoResult
    /\ ta = NewTopological
    /\ cg = NewDirected
    /\ vtxStatus = [v \in VtxIDs |-> Unknown]
    /\ txStatus = [t \in TxIDs |-> Processing]
    /\ edge = {}
    /\ call = NoCall
    /\ c = NewConflicts
    /\ txDecl = <<>>
    /\ ret = NoReturn
    /\ te = NewTransitive
    /\ out = [hist |-> {}, lim |-> [polls |-> 0, blocked |-> 0, answered |-> 0]]

\* A call of the prefixed state returns r
QReturns(op, r) ==
    /\ mgr' = r.ps
    /\ res' = [op |-> op, err |-> r.err]
    /\ UNCHANGED <<txStatus, cvars, tvars, evars>>

QSetStackSize(size, written) == QReturns("SetStackSize", SetStackSize(mgr, size, written))

QStackSize == QReturns("StackSize", StackSize(mgr))

QSetStackIndex(index, job, written) ==
    QReturns("SetStackIndex", SetStackIndex(mgr, index, job, written))

QDeleteStackIndex(index, written) ==
    QReturns("DeleteStackIndex", DeleteStackIndex(mgr, index, written))

QStackIndex(index) == QReturns("StackIndex", StackIndex(mgr, index))

QSetJob(job, written) == QReturns("SetJob", SetJob(mgr, job, written))

QHasJob(id) == QReturns("HasJob", HasJob(mgr, id))

QDeleteJob(id, written) == QReturns("DeleteJob", DeleteJob(mgr, id, written))

QJob(id) == QReturns("Job", JobOf(mgr, id))

\* The node restarts: a new prefixed state over the database
QRestart ==
    /\ mgr.stackSizeSet \/ mgr.stackIndexCache # <<>> \/ mgr.jobCache # <<>>
    /\ mgr' = [NewPrefixedState EXCEPT !.db = mgr.db]
    /\ res' = [op |-> "restart", err |-> FALSE]
    /\ UNCHANGED <<txStatus, cvars, tvars, evars>>

QNext ==
    \/ \E size \in 0..MaxStack, written \in BOOLEAN : QSetStackSize(size, written)
    \/ QStackSize
    \/ \E index \in StackIndices, job \in QueueJobs, written \in BOOLEAN :
            QSetStackIndex(index, job, written)
    \/ \E index \in StackIndices, written \in BOOLEAN : QDeleteStackIndex(index, written)
    \/ \E index \in StackIndices : QStackIndex(index)
    \/ \E job \in QueueJobs, written \in BOOLEAN : QSetJob(job, written)
    \/ \E id \in QueueJobIDs : QHasJob(id)
    \/ \E id \in QueueJobIDs, written \in BOOLEAN : QDeleteJob(id, written)
    \/ \E id \in QueueJobIDs : QJob(id)
    \/ QRestart

SpecQueue == QInit /\ [][QNext]_vars

(***************************************************************************)
(* The conflict manager and the DAG, each driven by its caller             *)
(***************************************************************************)

AInit == CInit \/ TInit

ANext == CNext \/ TNext

SpecAdd == AInit /\ [][ANext]_vars

(***************************************************************************)
(* TopologicalSort, driven as its test drives it                           *)
(***************************************************************************)

\* The transactions handed to TopologicalSort
SortTxs == {1, 2, 3}

\* The ids a transaction may name as a dependency; 0 is never in the input
DepIDs == {0, 1, 2, 3}

\* Most dependencies one transaction declares
MaxDeps == 2

\* "a set of transactions": the lists without a repeated transaction
RECURSIVE ListsOf(_)
ListsOf(S) ==
    {<<>>} \cup UNION {{<<t>> \o l : l \in ListsOf(S \ {t})} : t \in S}

\* TopologicalSort, depsInTxs without the test of txIDs.Contains(dep)
DepsInTxsUnfiltered(txIDs, deps) == deps

\* TopologicalSort, depsInTxs: the dependencies that are in [txs]
DepsInTxs(txIDs, deps) == {dep \in deps : dep \in txIDs}

\* TopologicalSort, the loop `for len(noDeps) != 0`: every list it may leave
\* in sorted. The range over the map txToDeps visits its keys in any order,
\* so the transactions one step releases are appended in any order.
RECURSIVE KahnLoop(_, _, _)
KahnLoop(sorted, noDeps, txToDeps) ==
    IF noDeps = <<>> THEN {sorted}
    ELSE LET tx       == Head(noDeps)
             removed  == [k \in DOMAIN txToDeps |-> txToDeps[k] \ {tx}]
             released == {k \in DOMAIN removed : removed[k] = {}}
             left     == [k \in DOMAIN removed \ released |-> removed[k]]
         IN UNION {KahnLoop(Append(sorted, tx), Tail(noDeps) \o p, left) :
                   p \in Perms(released)}

\* TopologicalSort(txs), with decl the DependenciesV of every transaction:
\* every pair of a list and an error it may return
TopologicalSort(txs, decl) ==
    LET txIDs    == Range(txs)
        inTxs    == [t \in txIDs |-> DepsInTxs(txIDs, decl[t].deps)]
        noDeps   == SelectSeq(txs, LAMBDA t : inTxs[t] = {})
        txToDeps == [t \in {k \in txIDs : inTxs[k] # {}} |-> inTxs[t]]
    IN {IF Len(sorted) # Len(txs)
        THEN [sorted |-> <<>>, err |-> TRUE]
        ELSE [sorted |-> sorted, err |-> FALSE] :
        sorted \in KahnLoop(<<>>, noDeps, txToDeps)}

SInit ==
    /\ phase = "sort"
    /\ txDecl = [t \in SortTxs |-> NoDecl]
    /\ res = NoResult
    /\ c = NewConflicts
    /\ txStatus = [t \in SortTxs |-> Processing]
    /\ ret = NoReturn
    /\ ta = NewTopological
    /\ cg = NewDirected
    /\ vtxStatus = [v \in VtxIDs |-> Processing]
    /\ edge = {}
    /\ call = NoCall
    /\ te = NewTransitive
    /\ out = NoOutput
    /\ mgr = NewManager

\* tx.DependenciesV = append(tx.DependenciesV, dep)
SAppendDependency ==
    /\ phase = "sort"
    /\ \E t \in SortTxs, dep \in DepIDs :
         /\ dep \notin txDecl[t].deps
         /\ Cardinality(txDecl[t].deps) < MaxDeps
         /\ txDecl' = [txDecl EXCEPT ![t].deps = @ \cup {dep}]
    /\ res' = NoResult
    /\ UNCHANGED <<c, txStatus, ret, tvars, evars, mgr>>

\* sorted, err := TopologicalSort(txs)
STopologicalSort ==
    /\ phase = "sort"
    /\ \E txs \in ListsOf(SortTxs) :
         \E r \in TopologicalSort(txs, txDecl) :
            res' = [op |-> "TopologicalSort", err |-> r.err,
                    txs |-> txs, sorted |-> r.sorted]
    /\ UNCHANGED <<c, txStatus, txDecl, ret, tvars, evars, mgr>>

SNext == SAppendDependency \/ STopologicalSort

SpecSort == SInit /\ [][SNext]_vars

(***************************************************************************)
(* Properties of the conflict manager                                      *)
(***************************************************************************)

\* t precludes p: t lists p in Precludes, or p lists t in PrecludedBy
Precl(t, p) == p \in txDecl[t].precludes \/ t \in txDecl[p].precludedBy

\* Every transaction Updateable has returned as acceptable so far
ReturnedAcc == ret.prevAcc \cup Range(ret.acc)

\* Every transaction Updateable has returned as rejectable so far
ReturnedRej == ret.prevRej \cup Range(ret.rej)

\* C1: of two transactions that preclude each other, at most one is ever
\* returned as acceptable by Updateable, so at most one reaches Accepted.
C1_ConflictExclusivity ==
    \A t1, t2 \in CTxs :
        (t1 # t2 /\ Precl(t1, t2) /\ Precl(t2, t1)) => ~({t1, t2} \subseteq ReturnedAcc)

\* C7: a transaction is returned as acceptable only after each of its
\* dependencies was returned as acceptable by an earlier Updateable call,
\* never before a dependency or in the same call as one.
C7_AcceptAfterDependencies ==
    \A t \in Range(ret.acc) : txDecl[t].deps \subseteq ret.prevAcc

\* A transaction for which Accept was called while a dependency was not yet
\* Accepted has been returned as acceptable, after that dependency.
C7_Witness ==
    \E t \in Range(ret.acc) : t \in ret.waited /\ txDecl[t].deps # {}

\* C8: once a transaction was returned as rejectable, every processing
\* transaction depending on it is queued to be returned as rejectable by the
\* next Updateable call, and no transaction depending on a transaction that
\* was returned as rejectable is ever returned as acceptable.
C8_DependentsRejected ==
    /\ \A r \in Range(ret.rej) : \A x \in c.txs :
          r \in txDecl[x].deps => x \in Range(c.rejectable)
    /\ \A t \in ReturnedAcc : txDecl[t].deps \cap ReturnedRej = {}

\* C9: in an Updateable call, every transaction that an accepted transaction
\* precludes and that is processing when that transaction is accepted is
\* returned as rejectable by the same call, and a transaction is returned as
\* rejectable only if it was queued for rejection before the call or is
\* precluded by a transaction accepted in the call: a transaction that only
\* precludes the accepted one stays processing.
C9_PrecludedRejected ==
    [][ /\ \A i \in 1..Len(ret'.acc) : \A p \in c.txs :
              (Precl(ret'.acc[i], p) /\ p \notin {ret'.acc[j] : j \in 1..(i - 1)})
                  => p \in Range(ret'.rej)
        /\ \A q \in Range(ret'.rej) :
              q \in Range(c.rejectable) \/ \E t \in Range(ret'.acc) : Precl(t, q)
      ]_vars

(***************************************************************************)
(* Properties of the DAG engine                                            *)
(***************************************************************************)

\* v and its ancestors
RECURSIVE Ancestry(_)
Ancestry(v) == {v} \cup UNION {Ancestry(p) : p \in Range(ParentsV[v])}

\* The vertices for which hook op was invoked before position i of hooks h
Before(h, i, op) == {h[j].vtx : j \in {k \in 1..(i - 1) : h[k].op = op}}

\* C2: a vertex or transaction that is Accepted or Rejected keeps its status
\* through every Add, RecordPoll and job, and no Accept or Reject hook is
\* invoked on a vertex that is already decided or twice in one call.
C2_TerminalStatus ==
    [][ /\ \A v \in VtxIDs : Decided(vtxStatus[v]) => vtxStatus'[v] = vtxStatus[v]
        /\ \A t \in DOMAIN txStatus : Decided(txStatus[t]) => txStatus'[t] = txStatus[t]
        /\ \A i \in 1..Len(call'.hooks) :
              /\ ~Decided(vtxStatus[call'.hooks[i].vtx])
              /\ \A j \in 1..(i - 1) : call'.hooks[j].vtx # call'.hooks[i].vtx
      ]_vars

\* A vertex accepted earlier is in the frontier, where update visits it again
\* as a decided vertex, and the last call rejected another vertex.
C2_Witness ==
    /\ phase = "consensus"
    /\ \E v \in ta.frontier, u \in call.rejected :
          vtxStatus[v] = Accepted /\ v \notin call.accepted /\ vtxStatus[u] = Rejected

\* C3: every Accepted vertex has every parent Accepted and every transaction
\* Accepted, whether it was accepted by update or by a bootstrap vertex job.
C3_AcceptanceClosure ==
    \A v \in VtxIDs :
        vtxStatus[v] = Accepted =>
            /\ \A p \in Range(ParentsV[v]) : vtxStatus[p] = Accepted
            /\ \A t \in Range(TxsV[v]) : txStatus[t] = Accepted

\* update accepted a vertex that has a parent, after a bootstrap in which a
\* vertex job accepted a vertex.
C3_Witness ==
    /\ phase = "consensus"
    /\ \E v \in call.accepted : ParentsV[v] # <<>>
    /\ \E u \in VtxIDs : vtxStatus[u] = Accepted /\ u \notin DOMAIN ta.preferenceCache

\* C4: after Add or RecordPoll returns, no vertex of the node map has a
\* Rejected parent.
C4_RejectionClosure ==
    \A v \in ta.nodes : \A p \in Range(ParentsV[v]) : vtxStatus[p] # Rejected

\* C5: the edge of the manager is the set of accepted vertices that have no
\* accepted descendant.
C5_EdgeIsAcceptedFrontier ==
    edge = {v \in VtxIDs :
                /\ vtxStatus[v] = Accepted
                /\ \A d \in VtxIDs \ {v} : v \in Ancestry(d) => vtxStatus[d] # Accepted}

\* A vertex was accepted after its parent, which has left the edge, and the
\* edge holds another vertex too.
C5_Witness ==
    \E v \in edge, u \in edge :
        /\ u # v
        /\ \E p \in Range(ParentsV[v]) : vtxStatus[p] = Accepted /\ p \notin edge

\* C6: in every call, when the Accept hook of a vertex is invoked each parent
\* of the vertex was Accepted before the call or had its Accept hook invoked
\* earlier in the call.
C6_ParentsAcceptedFirst ==
    [][ \A i \in 1..Len(call'.hooks) :
            call'.hooks[i].op = "Accept" =>
                \A p \in Range(ParentsV[call'.hooks[i].vtx]) :
                    vtxStatus[p] = Accepted \/ p \in Before(call'.hooks, i, "Accept")
      ]_vars

\* One RecordPoll accepted a vertex and then a child of it.
C6_Witness ==
    /\ phase = "consensus"
    /\ \E i, j \in 1..Len(call.hooks) :
          /\ i < j
          /\ call.hooks[i].op = "Accept" /\ call.hooks[j].op = "Accept"
          /\ call.hooks[i].vtx \in Range(ParentsV[call.hooks[j].vtx])

\* What a call leaves behind, but for the order of the hook invocations
Outcome(w) == [w EXCEPT !.hooks = {}]

\* The order of the ids
Ascending == <<1, 2, 3, 4, 5, 6>>

\* C10: from every reachable state, a RecordPoll with the same responses
\* ends in the same state, with the same accepted and rejected vertex sets,
\* in whatever orders the responses, leaves, transactions and frontier are
\* ranged over; Add and the conflict graph range over no map.
C10_Deterministic ==
    phase = "consensus" =>
        \A chits \in [Voters -> ChitChoices] :
            LET responses == Responses(chits)
                outcome == Outcome(RecordPoll(World, responses, Ascending, Ascending,
                                              Ascending, Ascending))
            IN \A ordR \in Perms(DOMAIN responses) :
               \A ordL \in Perms(PollLeaves(World, responses, ordR)) :
               \A ordT \in Perms(PollTxs(World, responses, ordR, ordL)) :
               \A ordF \in Perms(PollFrontier(World, responses, ordR, ordL, ordT)) :
                    Outcome(RecordPoll(World, responses, ordR, ordL, ordT, ordF)) = outcome

\* The engine has just accepted a vertex and rejected another, and from the
\* state it is in a poll whose two responses name different vertices ranges
\* over a frontier of several vertices and accepts and rejects vertices.
C10_Witness ==
    /\ phase = "consensus"
    /\ call.accepted # {} /\ call.rejected # {}
    /\ \E chits \in [Voters -> ChitChoices] :
          LET responses == Responses(chits)
              w == RecordPoll(World, responses, Ascending, Ascending, Ascending, Ascending)
          IN /\ Cardinality(DOMAIN responses) >= 2
             /\ Cardinality(PollFrontier(World, responses, Ascending, Ascending,
                                         Ascending)) >= 2
             /\ w.accepted # {} /\ w.rejected # {}

(***************************************************************************)
(* Properties of the bootstrap jobs and of the vote threshold              *)
(***************************************************************************)

\* Every parent of v is Accepted
ParentsAllAccepted(v) == \A p \in Range(ParentsV[v]) : vtxStatus[p] = Accepted

RECURSIVE Reached(_)
Reached(v) == {v} \cup UNION {Reached(p) : p \in {q \in Range(ParentsV[v]) : ~Decided(vtxStatus[q])}}

\* The validators whose chit reaches a vertex that holds transaction t
TxVoters(responses, t) ==
    UNION {responses[v] : v \in {x \in DOMAIN responses \cap ta.nodes :
                                    \E u \in Reached(x) \cap ta.nodes : t \in Range(TxsV[u])}}

\* The validators that count for t: its voters but for those of a
\* conflicting transaction
NetVoters(responses, t) ==
    TxVoters(responses, t) \ UNION {TxVoters(responses, u) : u \in CgConflicts(cg, t)}

\* The poll counts as a success for t: t is accepted, or its confidence grows
Advances(w, t) ==
    \/ w.txStatus[t] = Accepted
    \/ t \in w.cg.txs /\ w.cg.successes[t] = cg.successes[t] + 1

\* The poll is no success for t: t is not accepted and its confidence is reset
Resets(w, t) ==
    /\ w.txStatus[t] # Accepted
    /\ t \in w.cg.txs => w.cg.successes[t] = 0

\* The validators whose chit names v or a descendant of v
VtxVoters(responses, v) ==
    UNION {responses[x] : x \in {y \in DOMAIN responses \cap ta.nodes : v \in Reached(y)}}

\* C20 as stated, by the votes a vertex receives, directly or through its
\* descendants: alpha - 1 votes for a vertex reset the confidence of its
\* transactions and accept none of them, and alpha votes for a vertex
\* advance the confidence of its transactions.
C20_VertexThreshold ==
    phase = "consensus" =>
        \A chits \in [Voters -> ChitChoices] :
            LET responses == Responses(chits)
                w == RecordPoll(World, responses, Ascending, Ascending, Ascending, Ascending)
            IN \A v \in ta.nodes : \A t \in Range(TxsV[v]) \cap cg.txs :
                    /\ Cardinality(VtxVoters(responses, v)) = Alpha - 1 => Resets(w, t)
                    /\ Cardinality(VtxVoters(responses, v)) = Alpha => Advances(w, t)

\* C20: a poll in which a transaction receives at most alpha - 1 votes, over
\* the voted vertices whose undecided ancestry holds it and without the
\* validators that also voted for a conflicting transaction, accepts nothing
\* for it and resets its confidence; a poll in which it receives alpha such
\* votes is a success for it: it is accepted or its confidence grows by one.
C20_TxThreshold ==
    phase = "consensus" =>
        \A chits \in [Voters -> ChitChoices] :
            LET responses == Responses(chits)
                w == RecordPoll(World, responses, Ascending, Ascending, Ascending, Ascending)
            IN \A t \in cg.txs :
                    /\ Cardinality(NetVoters(responses, t)) <= Alpha - 1 => Resets(w, t)
                    /\ Cardinality(NetVoters(responses, t)) >= Alpha => Advances(w, t)

\* A transaction that has gained confidence is in two vertices: a poll with
\* alpha - 1 votes for it resets that confidence, and a poll with alpha
\* votes, one for each of the two vertices, is a success for it.
C20_Witness ==
    /\ phase = "consensus"
    /\ \E t \in cg.txs :
          /\ cg.successes[t] > 0
          /\ \E chits \in [Voters -> ChitChoices] :
                /\ Cardinality(NetVoters(Responses(chits), t)) = Alpha - 1
                /\ RecordPoll(World, Responses(chits), Ascending, Ascending, Ascending,
                              Ascending).cg.successes[t] = 0
          /\ \E chits \in [Voters -> ChitChoices] :
                /\ Cardinality(DOMAIN Responses(chits)) = Alpha
                /\ Cardinality(NetVoters(Responses(chits), t)) = Alpha
                /\ Advances(RecordPoll(World, Responses(chits), Ascending, Ascending,
                                       Ascending, Ascending), t)

(***************************************************************************)
(* Properties of the Transitive engine                                     *)
(***************************************************************************)

\* The request ids a message may carry
RequestIDs == 1..MaxPoll

\* The vertices named by votes are issued: the chit blocks on nothing and
\* starts no issuance
Direct(votes) == \A v \in votes : VertexIssued(World, v)

\* The validator is expected by the outstanding poll and has not responded
Awaited(vdr, requestID) ==
    requestID \in DOMAIN te.polls /\ vdr \in te.polls[requestID].polled

\* The operation left the polls and consensus as they were and recorded no poll
Dropped(s) ==
    /\ s.te.polls = te.polls
    /\ s.out.recorded = <<>>
    /\ TopologicalOf(s.w) = ta /\ s.w.cg = cg
    /\ s.w.vtxStatus = vtxStatus /\ s.w.txStatus = txStatus

\* C11: in an outstanding poll, Chits from a validator that has already
\* responded or that the poll does not expect change neither the tally nor
\* the completion of the poll, and nothing in consensus: the poll is
\* recorded only by the response of its last awaited validator, so two chits
\* of one validator accept nothing.
C11_DuplicateAndUnexpectedChits ==
    phase = "engine" =>
        \A vdr \in Peers, requestID \in DOMAIN te.polls, votes \in EngineChits :
            Direct(votes) =>
                LET s == Chits(EState(TxIDs), vdr, requestID, votes) IN
                /\ ~Awaited(vdr, requestID) => Dropped(s)
                /\ s.out.recorded # <<>> => te.polls[requestID].polled = {vdr}

\* A validator has voted for an issued vertex in a poll that awaits the other
\* validator: its second chit for the vertex and the chit of an unexpected
\* peer change nothing, and the chit of the other validator accepts the vertex.
C11_Witness ==
    /\ phase = "engine"
    /\ \E requestID \in DOMAIN te.polls, v \in ta.nodes :
          /\ {v} \in EngineChits
          /\ te.polls[requestID].polled = {2}
          /\ MapGet(te.polls[requestID].votes, v) = {1}
          /\ Dropped(Chits(EState(TxIDs), 1, requestID, {v}))
          /\ Dropped(Chits(EState(TxIDs), 3, requestID, {v}))
          /\ Chits(EState(TxIDs), 2, requestID, {v}).w.vtxStatus[v] = Accepted

\* The validator responded to the outstanding poll with no vote, as a
\* QueryFailed does
Failed(vdr, requestID) ==
    /\ requestID \in DOMAIN te.polls
    /\ vdr \in Voters \ te.polls[requestID].polled
    /\ \A v \in DOMAIN te.polls[requestID].votes : vdr \notin te.polls[requestID].votes[v]

Operations ==
    {Put(EState(TxIDs), v) : v \in VtxIDs}
        \cup {GetFailed(EState(TxIDs), v) : v \in VtxIDs}
        \cup {PushQuery(EState(TxIDs), v) : v \in {u \in VtxIDs : vtxStatus[u] = Unknown}}
        \cup {Chits(EState(TxIDs), vdr, requestID, votes) :
                  vdr \in Voters, requestID \in DOMAIN te.polls, votes \in EngineChits}

\* How often the operation notified job j of dependency id
Notifications(s, j, id) ==
    Cardinality({i \in DOMAIN s.out.notified : s.out.notified[i] = [job |-> j, dep |-> id]})

\* How often job j was registered under id when the operation resolved id
Resolutions(s, j, id) ==
    Cardinality({<<i, k>> \in (DOMAIN s.out.resolved) \X (1..MaxBlocked + 2) :
                    /\ s.out.resolved[i].dep = id
                    /\ k \in DOMAIN s.out.resolved[i].jobs
                    /\ s.out.resolved[i].jobs[k] = j})

Undecided(v) == vtxStatus[v] # Unknown /\ ~Decided(vtxStatus[v])

\* The nearest issued, undecided ancestors of a vertex, through its fetched,
\* undecided ancestors that are not issued
RECURSIVE NearestIssued(_)
NearestIssued(v) ==
    UNION {IF ~Undecided(p) THEN {}
           ELSE IF p \in ta.nodes THEN {p}
           ELSE NearestIssued(p) : p \in Range(ParentsV[v])}

\* The validators whose vote in the poll belongs to the issued vertex a
VotesAt(votes, a) ==
    IF ~(Undecided(a) /\ a \in ta.nodes) THEN {}
    ELSE MapGet(votes, a)
            \cup UNION {votes[v] : v \in {u \in DOMAIN votes :
                                            /\ Undecided(u)
                                            /\ u \notin ta.nodes
                                            /\ a \in NearestIssued(u)}}

\* C15: the votes of a finished poll for a fetched vertex that is not issued
\* are applied at its nearest issued, undecided ancestors, through as many
\* generations that are not issued as needed, and no vote stays on a vertex
\* that is not issued.
C15_VotesBubbleToNearestIssued ==
    phase = "engine" =>
        \A chits \in [Voters -> ChitChoices] :
            LET bubbled == BubbleVotes(World, Responses(chits)) IN
            \A a \in VtxIDs : MapGet(bubbled, a) = VotesAt(Responses(chits), a)

\* C15, for votes one generation away from an issued vertex: votes for a
\* vertex that is not issued and whose fetched, undecided parents are all
\* issued are applied at those parents and do not stay on the vertex.
C15_OneGeneration ==
    phase = "engine" =>
        \A chits \in [Voters -> ChitChoices] :
            LET votes == Responses(chits)
                bubbled == BubbleVotes(World, votes)
            IN \A v \in DOMAIN votes :
                  (/\ Undecided(v) /\ v \notin ta.nodes
                   /\ \A p \in Range(ParentsV[v]) : Undecided(p) => p \in ta.nodes)
                      => /\ MapGet(bubbled, v) = {}
                         /\ \A p \in Range(ParentsV[v]) :
                                Undecided(p) => votes[v] \subseteq MapGet(bubbled, p)

\* A vertex that is not issued has a parent that is not issued either, whose
\* parent is issued and undecided.
C15_TwoGenerations ==
    /\ phase = "engine"
    /\ \E v \in VtxIDs : \E p \in Range(ParentsV[v]) : \E a \in Range(ParentsV[p]) :
          /\ Undecided(v) /\ v \notin ta.nodes
          /\ Undecided(p) /\ p \notin ta.nodes
          /\ a \in ta.nodes

LastResponse(vdr, requestID) ==
    Awaited(vdr, requestID) /\ te.polls[requestID].polled = {vdr}

\* C17: after a poll finishes and is recorded, every orphan that
\* Consensus.Orphans reports is batched into a new vertex, unless the engine
\* can quiesce; whatever VM.GetTx returns for the orphans.
C17_OrphansReissued ==
    phase = "engine" =>
        \A vm \in VMChoices, vdr \in Voters, requestID \in DOMAIN te.polls,
           votes \in EngineChits :
            (Direct(votes) /\ LastResponse(vdr, requestID)) =>
                LET s == Chits(EState(vm), vdr, requestID, votes) IN
                (Len(s.out.orphans) = 1 /\ ~Quiesce(s.w)) =>
                    s.out.orphans[1] \subseteq s.out.batched

\* C17, while VM.GetTx returns every orphan: the orphans of a recorded poll
\* are batched, and an engine that can quiesce has no orphan.
C17_OrphansReissuedByVM ==
    phase = "engine" =>
        \A vdr \in Voters, requestID \in DOMAIN te.polls, votes \in EngineChits :
            (Direct(votes) /\ LastResponse(vdr, requestID)) =>
                LET s == Chits(EState(TxIDs), vdr, requestID, votes) IN
                Len(s.out.orphans) = 1 =>
                    /\ s.out.orphans[1] \subseteq s.out.batched
                    /\ Quiesce(s.w) => s.out.orphans[1] = {}

\* The last response of a poll leaves an orphan and an engine that cannot
\* quiesce.
C17_Orphaned ==
    /\ phase = "engine"
    /\ \E vdr \in Voters, requestID \in DOMAIN te.polls, votes \in EngineChits :
          /\ Direct(votes) /\ LastResponse(vdr, requestID)
          /\ LET s == Chits(EState(TxIDs), vdr, requestID, votes) IN
             /\ Len(s.out.orphans) = 1
             /\ s.out.orphans[1] # {}
             /\ ~Quiesce(s.w)

\* The queries the voter sent during the operation
VoterQueries(s) == {i \in DOMAIN s.out.queries : s.out.queries[i].by = "voter"}

Held == Cached(mgr) \cup WireVertices

\* r is what parsing the bytes of v returned
SameVertex(v, bytes, r) ==
    /\ ~r.err
    /\ r.vtx.ChainID = v.ChainID
    /\ r.vtx.Hght = v.Hght
    /\ r.vtx.ParentIDs = v.ParentIDs
    /\ r.vtx.Transactions = v.Transactions
    /\ r.vtx.bytes = bytes
    /\ r.vtx.id = ComputeHash256Array(bytes)

\* C21: for every well-formed vertex (one that passes Verify), parsing the
\* bytes Marshal produces yields a vertex with the same chain id, height,
\* parent ids, transactions and bytes, and its id is the hash of the bytes.
C21_ParseOfMarshal ==
    \A v \in Held :
        Verify(v) = "nil" /\ ~Marshal(v).Err
            => SameVertex(v, Marshal(v).Bytes, parseVertex(mgr, Marshal(v).Bytes))

\* A well-formed vertex with a parent and two transactions was built, and the
\* bytes Marshal made of it were parsed
C21_Witness ==
    /\ res = [op |-> "ParseVertex", err |-> FALSE]
    /\ \E v \in Cached(mgr) :
        /\ v = mgr.vtxCache[1].vtx
        /\ Verify(v) = "nil"
        /\ Len(v.ParentIDs) = 1 /\ Len(v.Transactions) = 2
        /\ v.bytes = Marshal(v).Bytes

\* The vertices ParseVertex makes of what peers send
Ingested == {parseVertex(mgr, b).vtx : b \in {x \in WireBytes : ~parseVertex(mgr, x).err}}

\* C22: a vertex with 0 transactions is rejected as malformed: BuildVertex
\* with no transactions fails, Verify fails on it, and ParseVertex accepts no
\* bytes that encode a transaction count of 0.
C22_NoTransactionsRejected ==
    /\ \A parentIDs \in SUBSET KnownIDs(mgr) :
          BuildVertex(mgr, ctxChainID, parentIDs, <<>>).err
    /\ \A v \in Held : v.Transactions = <<>> => Verify(v) # "nil"
    /\ \A v \in Ingested : v.Transactions # <<>>

\* C22, the part of it the code keeps: BuildVertex with no transactions
\* fails and Verify fails on a vertex without transactions.
C22_BuildAndVerifyReject ==
    /\ \A parentIDs \in SUBSET KnownIDs(mgr) :
          BuildVertex(mgr, ctxChainID, parentIDs, <<>>).err
    /\ \A v \in Held \cup Ingested : v.Transactions = <<>> => Verify(v) # "nil"

\* ParseVertex has accepted a vertex without transactions, on which Verify
\* fails with errNoTxs
C22_Ingested ==
    /\ res = [op |-> "ParseVertex", err |-> FALSE]
    /\ mgr.vtxCache[1].vtx.Transactions = <<>>
    /\ Verify(mgr.vtxCache[1].vtx) = "errNoTxs"

\* C23: a vertex with 0 parents is rejected as malformed unless it is the
\* genesis (height 0): neither building, parsing nor verifying a vertex with
\* an empty parent list succeeds.
C23_NoParentsRejected ==
    /\ \A txs \in BuildTxs : BuildVertex(mgr, ctxChainID, {}, txs).err
    /\ \A v \in Held : v.ParentIDs = <<>> /\ v.Hght > 0 => Verify(v) # "nil"
    /\ \A v \in Ingested : v.ParentIDs = <<>> => v.Hght = 0

\* A vertex without parents was built at height 1, and one was parsed at
\* height 2; both pass Verify
C23_Accepted ==
    /\ \E v \in Cached(mgr) : v.ParentIDs = <<>> /\ v.Hght = 1 /\ Verify(v) = "nil"
    /\ \E v \in Cached(mgr) : v.ParentIDs = <<>> /\ v.Hght = 2 /\ Verify(v) = "nil"

(***************************************************************************)
(* Properties of Add and of the queries of the conflict manager            *)
(***************************************************************************)

\* Add may be called for t: the transactions its preclusion lists name are
\* processing and none of its dependencies is rejected (conflicts/tx.go)
Addable(t) ==
    /\ txDecl[t].precludedBy \cup txDecl[t].precludes \subseteq c.txs
    /\ \A d \in txDecl[t].deps : txStatus[d] # Rejected

C24_VertexAdded ==
    /\ phase = "consensus"
    /\ 2 \in ta.nodes /\ 1 \in ta.nodes /\ 6 \in ta.nodes

\* C24 without the first Add in between: adding a processing transaction
\* again at any later time, its preclusion lists naming processing
\* transactions, leaves the conflict manager as it is.
C24_TxAddedAgain ==
    \A t \in c.txs : Addable(t) => ConflictsAdd(c, t, txDecl[t], txStatus) = c

\* What a transaction may declare when it is added
Decls ==
    [ deps        : SUBSET {d \in CTxs : txStatus[d] # Rejected},
      precludedBy : SUBSET c.txs,
      precludes   : SUBSET c.txs ]

\* C25: Add, IsVirtuous and PrecludedBy called with a value that is not a
\* transaction return an error and leave the conflict manager as it is; a
\* new conflict manager keeps txs, precludes, precludedBy and pendingAccept
\* empty.
C25_InvalidTxType ==
    \A x \in {y \in Decidables : ~y.tx} :
        /\ \A d \in Decls : ConflictsAddIntf(c, x, d, txStatus) = [cf |-> c, err |-> TRUE]
        /\ IsVirtuous(c, x).err
        /\ PrecludedBy(c, x).err
        /\ LET cf == ConflictsAddIntf(NewConflicts, x, NoDecl, txStatus).cf
           IN  /\ cf.txs = {} /\ cf.precludes = EmptyMap
               /\ cf.precludedBy = EmptyMap /\ cf.pendingAccept = EmptyMap

\* The conflict manager holds a transaction that is precluded by another and
\* that a third depends on, and the value handed to it has the id of that
\* transaction without being one
C25_Witness ==
    \E t \in c.txs :
        /\ MapGet(c.precludedBy, t) \cap c.txs # {}
        /\ MapGet(c.dependents, t) # {}
        /\ ConflictsAddIntf(c, [tx |-> FALSE, id |-> t], txDecl[t], txStatus).err
        /\ ConflictsAddIntf(c, [tx |-> TRUE, id |-> t], txDecl[t], txStatus).err = FALSE

\* p precludes x: x names p in its PrecludedBy list or p names x in its
\* Precludes list, whichever of the two was added later (conflicts/tx.go)
PrecludesTx(p, x) == x \in txDecl[p].precludes \/ p \in txDecl[x].precludedBy

TxOf(t) == [tx |-> TRUE, id |-> t]

\* C26: Precludes(tx) returns exactly the processing transactions that tx
\* precludes, that is the ones that must be rejected if tx is accepted.
C26_PrecludesReturnsPrecluded ==
    \A t \in c.txs :
        /\ ~Precludes(c, TxOf(t)).err
        /\ Precludes(c, TxOf(t)).txs = {x \in c.txs : PrecludesTx(t, x)}

\* What Precludes returns instead: the processing transactions that preclude
\* tx, as PrecludedBy does
C26_PrecludesReturnsPrecludors ==
    \A t \in c.txs :
        /\ Precludes(c, TxOf(t)).txs = {p \in c.txs : PrecludesTx(p, t)}
        /\ PrecludedBy(c, TxOf(t)) = Precludes(c, TxOf(t))

\* tx2 precludes tx1 and tx1 does not preclude tx2; Precludes(tx2) returns
\* nothing and Precludes(tx1) returns tx2
C26_OneWay ==
    /\ {1, 2} \subseteq c.txs
    /\ PrecludesTx(2, 1) /\ ~PrecludesTx(1, 2)
    /\ Precludes(c, TxOf(2)).txs = {}
    /\ Precludes(c, TxOf(1)).txs = {2}

\* The transactions that have not been added yet
NotAdded ==
    {t \in CTxs : /\ t \notin c.txs
                  /\ txStatus[t] = Processing
                  /\ t \notin ret.prevAcc \cup ret.prevRej \cup Range(ret.acc) \cup Range(ret.rej)}

\* C27: IsVirtuous(tx) returns false if and only if some processing
\* transaction precludes tx, whether or not tx has been added; a transaction
\* that has not been added is precluded by the processing transactions its
\* PrecludedBy list names.
C27_IsVirtuous ==
    /\ \A t \in c.txs :
          IsVirtuous(c, TxOf(t)) =
              [virtuous |-> ~\E p \in c.txs : PrecludesTx(p, t), err |-> FALSE]
    /\ \A t \in NotAdded : \A d \in Decls :
          IsVirtuous(c, TxOf(t)) =
              [virtuous |-> d.precludedBy \cap c.txs = {}, err |-> FALSE]

\* C27 for the transactions that have been added, and for the ones that have
\* not and declare no conflict
C27_IsVirtuousOfProcessing ==
    /\ \A t \in c.txs :
          IsVirtuous(c, TxOf(t)) =
              [virtuous |-> ~\E p \in c.txs : PrecludesTx(p, t), err |-> FALSE]
    /\ \A t \in NotAdded : IsVirtuous(c, TxOf(t)) = [virtuous |-> TRUE, err |-> FALSE]

\* A transaction is processing, another has not been added, and a third is
\* not virtuous
C27_Witness ==
    /\ NotAdded # {}
    /\ \E t \in c.txs : ~IsVirtuous(c, TxOf(t)).virtuous
    /\ \E t \in c.txs : IsVirtuous(c, TxOf(t)).virtuous

\* The transactions Updateable has returned so far
Returned == ret.prevAcc \cup ret.prevRej \cup Range(ret.acc) \cup Range(ret.rej)

\* C28: once every added transaction has been returned by Updateable, as
\* acceptable or as rejectable, the conflict manager holds no residual state:
\* txs, precludes, precludedBy and pendingAccept are empty.
C28_NoResidualState ==
    Returned # {} /\ c.txs \subseteq Returned
        => /\ c.txs = {}
           /\ c.precludes = EmptyMap
           /\ c.precludedBy = EmptyMap
           /\ c.pendingAccept = EmptyMap

\* Every added transaction has been returned and precludes is not empty
C28_Residue ==
    /\ Returned # {} /\ c.txs = {}
    /\ c.precludes # EmptyMap


(***************************************************************************)
(* Properties of TopologicalSort                                           *)
(***************************************************************************)

\* The last call was TopologicalSort
Sorted == phase = "sort" /\ res.op = "TopologicalSort"

\* The dependencies among the transactions of txs contain a cycle: some of
\* them each depend on one of them
HasCycle(txs) ==
    \E S \in SUBSET Range(txs) :
       /\ S # {}
       /\ \A t \in S : txDecl[t].deps \cap S # {}

\* sorted holds the transactions of txs, each as often as txs does
IsPermutation(sorted, txs) ==
    /\ Len(sorted) = Len(txs)
    /\ \A t \in Range(txs) \cup Range(sorted) :
          Cardinality({i \in 1..Len(sorted) : sorted[i] = t})
             = Cardinality({i \in 1..Len(txs) : txs[i] = t})

\* C29: TopologicalSort of a list without a repeated transaction returns an
\* error exactly when the dependencies among the listed transactions contain
\* a cycle; otherwise it returns a permutation of the list in which every
\* transaction stands after each of its dependencies that is listed, the
\* dependencies that are not listed being ignored.
C29_TopologicalSort ==
    Sorted =>
       /\ res.err <=> HasCycle(res.txs)
       /\ res.err => res.sorted = <<>>
       /\ ~res.err =>
            /\ IsPermutation(res.sorted, res.txs)
            /\ \A i, j \in 1..Len(res.sorted) :
                  res.sorted[j] \in txDecl[res.sorted[i]].deps => j < i

\* Three transactions were sorted into an order other than the one given, one
\* of them depending on a transaction that is not listed
C29_Witness ==
    /\ Sorted
    /\ ~res.err
    /\ Len(res.txs) = 3
    /\ res.sorted # res.txs
    /\ \E t \in Range(res.txs) : 0 \in txDecl[t].deps

\* A cycle among the listed transactions was reported
C29_CycleReported ==
    /\ Sorted
    /\ res.err
    /\ Len(res.txs) = 3


(***************************************************************************)
(* Properties of the engine once it has recorded an error                  *)
(***************************************************************************)

\* The voters whose vote may arrive: a validator answers a request
VoterJobs ==
    {Job("voter", 0, vdr, requestID, votes, {}) :
        vdr \in Peers, requestID \in 1..MaxPoll, votes \in EngineChits}

\* voter.Update left s as it was: no vote is registered in a poll, nothing is
\* recorded into consensus, no query is sent
Declined(s, u) ==
    /\ u.te = s.te
    /\ u.w = s.w
    /\ u.out = s.out

\* voter.Update has raised an error in u: the poll was recorded, and nothing
\* was re-issued and no query was sent after it
Stopped(s, u) ==
    /\ u.out.recorded # <<>>
    /\ u.out.batched = {}
    /\ u.out.orphans = <<>>
    /\ u.out.queries = <<>>
    /\ u.te.requestID = s.te.requestID

\* What voter.Update of job does in state s, by whether s holds an error
ErrorsObeyed(s, job, u) ==
    /\ s.te.errs => Declined(s, u)
    /\ ~s.te.errs /\ u.te.errs => Stopped(s, u)

\* C30: once the engine holds an error, voter.Update registers no vote in
\* the poll and records nothing into consensus, whatever vote arrives; and
\* when recording a poll raises the error, voter.Update ends there, without
\* re-issuing transactions and without a repoll.
C30_ErrorsStopTheVoter ==
    phase = "engine" =>
       \A job \in VoterJobs :
          ErrorsObeyed(EState(TxIDs), job, VoterUpdate(EState(TxIDs), job))

\* The engine holds an error and a vote arrives that an open poll waits for
C30_Witness ==
    /\ phase = "engine"
    /\ te.errs
    /\ \E job \in VoterJobs : Awaited(job.vdr, job.requestID)

\* The engine holds no error and a vote arrives whose recording raises one
C30_ErrorRaised ==
    /\ phase = "engine"
    /\ ~te.errs
    /\ \E job \in VoterJobs : Awaited(job.vdr, job.requestID) /\ VoterUpdate(EState(TxIDs), job).te.errs


(***************************************************************************)
(* Properties of the propagation of votes in RecordPoll                    *)
(***************************************************************************)

\* The voted sub-DAG: the voted vertices of the DAG map and their ancestors
\* over parents that are not decided
VotedDAG(responses) == UNION {Reached(x) : x \in DOMAIN responses \cap ta.nodes}

\* What pushVotes starts from: the in-degrees and the leaves that
\* calculateInDegree found, the leaves in the order ordL
PushStart(k, ordL) ==
    [kahns |-> k.kahns, leaves |-> SetToSeq(k.leaves, ordL),
     votes |-> EmptyMap, txConflicts |-> EmptyMap]

\* The loop of pushVotes took the leaves in the given order and ended in p:
\* every transaction of the voted sub-DAG holds the votes of the voted
\* vertices at or below a vertex that contains it, and every vertex of the
\* voted sub-DAG was taken once, after its descendants
Pushed(responses, p, order) ==
    /\ DOMAIN p.votes = UNION {Range(TxsV[v]) : v \in VotedDAG(responses)}
    /\ \A t \in DOMAIN p.votes : p.votes[t] = TxVoters(responses, t)
    /\ Range(order) = VotedDAG(responses)
    /\ Len(order) = Cardinality(VotedDAG(responses))
    /\ \A i, j \in 1..Len(order) : i < j => order[i] \notin Reached(order[j])

\* Pushed, for the in-degrees k in every order of the leaves
PushedFrom(responses, k) ==
    \A ordL \in Perms(k.leaves) :
        Pushed(responses, PushLoop(World, PushStart(k, ordL)),
               PushOrder(World, PushStart(k, ordL)))

\* C31: in RecordPoll, before conflicting votes are cancelled, a transaction
\* is credited with the union of the voters of every voted vertex of the DAG
\* map that contains it or descends, through undecided vertices, from a
\* vertex that contains it; the walk ends, and it takes every vertex of the
\* voted sub-DAG exactly once, after all of its voted descendants.
C31_VotesPushedUp ==
    phase = "consensus" =>
        \A chits \in [Voters -> ChitChoices] :
            LET responses == Responses(chits) IN
            \A ordR \in Perms(DOMAIN responses) :
                PushedFrom(responses,
                           CalculateInDegree(World, responses,
                                             SetToSeq(DOMAIN responses, ordR),
                                             [kahns |-> NoKahns, leaves |-> {}]))

\* A poll names two vertices of the DAG map that share an undecided
\* ancestor, so the ancestor has in-degree two in the voted sub-DAG
C31_Witness ==
    /\ phase = "consensus"
    /\ call.accepted # {}
    /\ \E chits \in [Voters -> ChitChoices] :
          LET responses == Responses(chits) IN
          /\ Cardinality(DOMAIN responses \cap ta.nodes) = 2
          /\ \E a \in VotedDAG(responses) :
                /\ a \notin DOMAIN responses
                /\ \A x \in DOMAIN responses : a \in Reached(x)

\* The voters left to the transactions are those pushVotes hands on: no
\* voter of a transaction is left to a transaction that conflicts with it,
\* and so no voter is left to two conflicting transactions
Cancelled(responses, net, bag) ==
    /\ \A t \in DOMAIN net :
          /\ net[t] = NetVoters(responses, t)
          /\ \A u \in CgConflicts(cg, t) :
                /\ net[t] \cap TxVoters(responses, u) = {}
                /\ u \in DOMAIN net => net[t] \cap net[u] = {}
    /\ bag = {t \in DOMAIN net : Cardinality(net[t]) >= Alpha}

\* Cancelled, for the in-degrees k in every order of the leaves and of the
\* transactions
CancelledFrom(responses, k) ==
    \A ordL \in Perms(k.leaves) :
    \A ordT \in Perms(UNION {Range(TxsV[v]) : v \in VotedDAG(responses)}) :
        Cancelled(responses,
                  NetVotes(World, k.kahns, SetToSeq(k.leaves, ordL), ordT),
                  PushVotes(World, k.kahns, SetToSeq(k.leaves, ordL), ordT))

\* C32: after the votes are pushed up in RecordPoll, a voter whose votes
\* reached two conflicting transactions is taken out of the votes of both
\* before the threshold alpha is applied: among the voters counted for the
\* bag handed to the conflict graph, none is counted for two transactions
\* that conflict.
C32_ConflictingVotesCancelled ==
    phase = "consensus" =>
        \A chits \in [Voters -> ChitChoices] :
            LET responses == Responses(chits) IN
            \A ordR \in Perms(DOMAIN responses) :
                CancelledFrom(responses,
                              CalculateInDegree(World, responses,
                                                SetToSeq(DOMAIN responses, ordR),
                                                [kahns |-> NoKahns, leaves |-> {}]))

\* Both validators name a vertex from which two conflicting transactions of
\* the conflict graph are reached: each had alpha voters and is left none
C32_Witness ==
    /\ phase = "consensus"
    /\ \E chits \in [Voters -> ChitChoices] :
          LET responses == Responses(chits) IN
          \E t \in cg.txs : \E u \in CgConflicts(cg, t) :
             /\ Cardinality(TxVoters(responses, t) \cap TxVoters(responses, u)) = Alpha
             /\ t \notin PushVotes(World,
                                   CalculateInDegree(World, responses,
                                                     SetToSeq(DOMAIN responses, Ascending),
                                                     [kahns |-> NoKahns, leaves |-> {}]).kahns,
                                   SetToSeq(PollLeaves(World, responses, Ascending), Ascending),
                                   Ascending)

\* The responses without the votes for vertices that are not in the DAG map
KnownVotes(responses) == [v \in DOMAIN responses \cap ta.nodes |-> responses[v]]

\* The poll ended in w with the votes for the vertices outside the DAG map
\* and in w0 without them, and the walk covered the vertices of kahns: the
\* two ends have the same conflict graph, with the same confidences, the
\* same statuses and the same decisions, the walk entered no decided vertex,
\* and a poll with no vote for a vertex of the DAG map decided nothing
Discarded(responses, w, w0, kahns) ==
    /\ w.cg = w0.cg
    /\ w.txStatus = w0.txStatus
    /\ w.vtxStatus = w0.vtxStatus
    /\ w.accepted = w0.accepted /\ w.rejected = w0.rejected
    /\ \A v \in DOMAIN kahns : v \in ta.nodes /\ ~Decided(vtxStatus[v])
    /\ DOMAIN responses \cap ta.nodes = {} =>
          /\ w.vtxStatus = vtxStatus
          /\ w.txStatus = txStatus
          /\ w.accepted = {} /\ w.rejected = {}
          /\ kahns = NoKahns

\* C33: the votes of a RecordPoll for a vertex that is not in the DAG map,
\* unknown or decided already, count for no transaction and change no
\* status: the poll ends as it ends without them, and the walk towards the
\* ancestors enters no decided parent.
C33_VotesOutsideTheDAGDiscarded ==
    phase = "consensus" =>
        \A chits \in [Voters -> ChitChoices] :
            LET responses == Responses(chits) IN
            Discarded(responses,
                      RecordPoll(World, responses, Ascending, Ascending, Ascending, Ascending),
                      RecordPoll(World, KnownVotes(responses), Ascending, Ascending,
                                 Ascending, Ascending),
                      CalculateInDegree(World, responses,
                                        SetToSeq(DOMAIN responses, Ascending),
                                        [kahns |-> NoKahns, leaves |-> {}]).kahns)

\* One validator names a decided vertex and the other a vertex of the DAG
\* map that has a decided parent, while transactions are processing
C33_Witness ==
    /\ phase = "consensus"
    /\ cg.txs # {}
    /\ \E v \in VtxIDs \ ta.nodes : \E x \in ta.nodes :
          /\ Decided(vtxStatus[v])
          /\ \E q \in Range(ParentsV[x]) : Decided(vtxStatus[q])
          /\ \E chits \in [Voters -> ChitChoices] : DOMAIN Responses(chits) = {v, x}


(***************************************************************************)
(* Properties of a voter whose fetch is abandoned                          *)
(***************************************************************************)

\* The chits of a validator: those of the runs and one that names a vertex
\* the engine may know together with one it may have to fetch
AbandonChits == EngineChits \cup {{3, 6}}

\* The state the next operation starts from once an operation has ended in s
Then(s) == [s EXCEPT !.out = [NoOutput EXCEPT !.hist = s.out.hist]]

\* Job j is still registered under some id
StillBlocked(s, j) == \E k \in DOMAIN s.te.vtxBlocked : j \in Range(s.te.vtxBlocked[k])

\* The ids the operation that ended in s fulfilled or abandoned
Resolved(s) == {s.out.resolved[i].dep : i \in DOMAIN s.out.resolved}

\* Voter j was blocked in s1 and GetFailed ended in s2. If GetFailed resolved
\* all that the voter waited for, the voter is gone and its chits are in the
\* poll: a poll that awaited no other validator has finished; a poll that
\* is still open no longer awaits the validator and holds the chits; a poll
\* that has finished was recorded with the vote of the validator for the
\* vertices of the DAG map that the chits name.
AbandonedVoterVotes(s1, j, s2) ==
    LET job == s1.te.jobs[j]
        last == s1.te.polls[job.requestID].polled = {job.vdr}
    IN job.deps \subseteq Resolved(s2) =>
          /\ ~StillBlocked(s2, j)
          /\ \E i \in DOMAIN s2.out.voted :
                s2.out.voted[i] = [requestID |-> job.requestID, vdr |-> job.vdr]
          /\ last => job.requestID \notin DOMAIN s2.te.polls
          /\ IF job.requestID \in DOMAIN s2.te.polls
             THEN /\ job.vdr \notin s2.te.polls[job.requestID].polled
                  /\ \A x \in job.response :
                        job.vdr \in MapGet(s2.te.polls[job.requestID].votes, x)
             ELSE \E i \in DOMAIN s2.out.recorded :
                      /\ s2.out.recorded[i].requestID = job.requestID
                      /\ \A x \in job.response \cap s1.w.nodes :
                            job.vdr \in MapGet(s2.out.recorded[i].votes, x)

\* Chits has ended in s1: every voter it left blocked votes once GetFailed
\* abandons what the voter waits for
BlockedVotersVote(s1) ==
    \A j \in {i \in DOMAIN s1.te.jobs \ DOMAIN te.jobs : s1.te.jobs[i].kind = "voter"} :
    \A v \in s1.te.outstanding :
        AbandonedVoterVotes(s1, j, GetFailed(Then(s1), v))

\* A voter of the validator for the request is blocked already: the
\* validator has answered, and its later chits are not registered
Answered(vdr, requestID) ==
    \E j \in DOMAIN te.jobs :
        /\ te.jobs[j].kind = "voter"
        /\ te.jobs[j].vdr = vdr /\ te.jobs[j].requestID = requestID

\* C34: when the fetch of a vertex that the chits of a validator name is
\* abandoned by GetFailed, the chits are registered in the poll all the
\* same, voter.Abandon being Fulfill: the poll finishes if it awaited this
\* validator only, the vertices of the DAG map named in the chits receive
\* the vote, and the voter is not left blocked.
C34_AbandonedFetchStillVotes ==
    phase = "engine" /\ ~te.errs =>
        \A vdr \in Voters, requestID \in DOMAIN te.polls, votes \in AbandonChits :
            Awaited(vdr, requestID) /\ ~Answered(vdr, requestID) =>
                BlockedVotersVote(Chits(EState(TxIDs), vdr, requestID, votes))

\* The last validator a poll awaits names vertex 6 of the DAG map and
\* vertex 3, which the engine has to fetch; once the fetch is abandoned the
\* poll is recorded with the vote for vertex 6 and nothing is blocked
C34_Witness ==
    /\ phase = "engine"
    /\ 6 \in ta.nodes /\ vtxStatus[3] = Unknown
    /\ te.vtxBlocked = <<>>
    /\ \E vdr \in Voters, requestID \in DOMAIN te.polls :
          /\ te.polls[requestID].polled = {vdr}
          /\ ~Answered(vdr, requestID)
          /\ LET s1 == Chits(EState(TxIDs), vdr, requestID, {3, 6})
                 s2 == GetFailed(Then(s1), 3)
             IN /\ s1.out.voted = <<>>
                /\ 3 \in s1.te.outstanding
                /\ s2.te.vtxBlocked = <<>>
                /\ \E i \in DOMAIN s2.out.recorded :
                      /\ s2.out.recorded[i].requestID = requestID
                      /\ vdr \in MapGet(s2.out.recorded[i].votes, 6)


(***************************************************************************)
(* Properties of the frontier of Topological                               *)
(***************************************************************************)

\* Every vertex of the DAG map is in the frontier or is an ancestor of a
\* vertex of the frontier
FrontierCovers == \A v \in ta.nodes : \E f \in ta.frontier : v \in Ancestry(f)

\* The transactions of v and the parents of v are all Accepted
Acceptable(v) ==
    /\ \A t \in Range(TxsV[v]) : txStatus[t] = Accepted
    /\ \A p \in Range(ParentsV[v]) : vtxStatus[p] = Accepted

\* C35, the frontier: after every Add and RecordPoll, each vertex of the DAG
\* map is in the frontier map or is an ancestor of a vertex in it.
C35_FrontierCoversTheDAG == phase = "consensus" => FrontierCovers

\* C35: after every Add and RecordPoll each vertex of the DAG map is in the
\* frontier or an ancestor of a vertex in the frontier, and after a
\* RecordPoll that changes the status of a transaction no vertex whose
\* transactions and parents are all Accepted is left Processing in the DAG
\* map.
C35_NoAcceptableVertexLeft ==
    /\ [](phase = "consensus" => FrontierCovers)
    /\ [][phase = "consensus" /\ txStatus' # txStatus =>
             \A v \in ta'.nodes : ~Acceptable(v)']_vars

\* A poll has accepted a transaction and a vertex, and vertices are left in
\* the DAG map
C35_Witness ==
    /\ phase = "consensus"
    /\ call.accepted # {}
    /\ ta.nodes # {}
    /\ FrontierCovers

\* A vertex of the DAG map is neither in the frontier nor an ancestor of a
\* vertex in it, and its transactions and parents are all Accepted
C35_Stranded ==
    /\ phase = "consensus"
    /\ \E v \in ta.nodes :
          /\ Acceptable(v)
          /\ \A f \in ta.frontier : v \notin Ancestry(f)

(***************************************************************************)
(* Properties of the lists Updateable returns over a run                   *)
(***************************************************************************)

\* The list holds no transaction twice
NoRepeat(list) == \A i, j \in 1..Len(list) : list[i] = list[j] => i = j

\* C36: over any sequence of Add, Accept and Updateable calls no transaction
\* is returned by Updateable more than once, neither twice by one call nor by
\* two calls, and no transaction is returned both as acceptable and as
\* rejectable.
C36_ReturnedAtMostOnce ==
    /\ NoRepeat(ret.acc) /\ NoRepeat(ret.rej)
    /\ Range(ret.acc) \cap ret.prevAcc = {}
    /\ Range(ret.rej) \cap ret.prevRej = {}
    /\ ReturnedAcc \cap ReturnedRej = {}

\* One call of Updateable returns a transaction in both of its lists
C36_ReturnedBothWays == Range(ret.acc) \cap Range(ret.rej) # {}

(***************************************************************************)
(* Properties of the status of a vertex the manager serves                 *)
(***************************************************************************)

\* C37: once a vertex has been accepted and saved, GetVertex for its id
\* returns a vertex whose Status is Accepted, whether the cache serves it or
\* it is parsed again from the database after an eviction or a restart.
C37_StatusSurvivesTheStore ==
    phase = "manager" =>
        \A id \in DOMAIN vtxStatus \cap DOMAIN mgr.db :
            /\ ~getVertex(mgr, id).err
            /\ getVertex(mgr, id).vtx.status = Accepted

\* An accepted and saved vertex is no longer in the cache
C37_Evicted ==
    /\ phase = "manager"
    /\ \E id \in DOMAIN vtxStatus \cap DOMAIN mgr.db : ~LRUHas(mgr.vtxCache, id)

(***************************************************************************)
(* Properties of the state when the database refuses a write               *)
(***************************************************************************)

\* C38: when the database write fails inside SetVertex, SetStatus or SetEdge,
\* a following Vertex, Status or Edge read returns what it returned before
\* the failed call.
C38_FailedWriteUnseen ==
    phase = "state" =>
        /\ \A vtx \in StoredVertices :
              SetVertex(mgr, VertexKey, vtx).err =>
                  StateVertex(SetVertex(mgr, VertexKey, vtx).s, VertexKey).val
                      = StateVertex(mgr, VertexKey).val
        /\ \A status \in StoredStatuses :
              SetStatus(mgr, StatusKey, status).err =>
                  StateStatus(SetStatus(mgr, StatusKey, status).s, StatusKey).val
                      = StateStatus(mgr, StatusKey).val
        /\ \A frontier \in StoredEdges :
              SetEdge(mgr, EdgeKey, frontier).err =>
                  StateEdge(SetEdge(mgr, EdgeKey, frontier).s, EdgeKey).val
                      = StateEdge(mgr, EdgeKey).val

\* After a refused SetStatus the cache holds a status the database does not
C38_CacheAhead ==
    /\ phase = "state"
    /\ res = [op |-> "SetStatus", err |-> TRUE]
    /\ StatusKey \in DOMAIN mgr.db
    /\ DBCacheHas(mgr.dbCache, StatusKey)
    /\ DBCacheVal(mgr.dbCache, StatusKey) # StatusValue(SavedStatus(mgr.db[StatusKey]))

(***************************************************************************)
(* Properties of a vertex job whose transactions are not all accepted      *)
(***************************************************************************)

\* The answers of GetTx to the transactions of the vertices
GetTxAnswers == [TxIDs -> GetTxResults]

\* A transaction of the vertex is not found, or is found and is not Accepted
TxNotReady(w, v, getTx) ==
    \E t \in Range(TxsV[v]) : getTx[t] # "tx" \/ w.txStatus[t] # Accepted

\* C39: executing a vertex job of which a transaction cannot be fetched or is
\* not Accepted returns an error, accepts and saves nothing, and leaves the
\* status of the vertex as it was.
C39_JobWithoutItsTxsFails ==
    phase = "bootstrap" =>
        \A v \in VtxIDs, getTx \in GetTxAnswers :
            TxNotReady(World, v, getTx) =>
                /\ ExecuteEnds(World, v, getTx) = "error"
                /\ ExecuteWith(World, v, getTx) = World

\* The part of C39 that holds: such a job accepts and saves nothing, leaves
\* every status as it was, and does not end without an error
C39_JobWithoutItsTxsAcceptsNothing ==
    phase = "bootstrap" =>
        \A v \in VtxIDs, getTx \in GetTxAnswers :
            TxNotReady(World, v, getTx) =>
                /\ ExecuteEnds(World, v, getTx) # "nil"
                /\ ExecuteWith(World, v, getTx) = World

\* A vertex job whose parents are accepted and whose first transaction GetTx
\* does not find
C39_TxNotFound ==
    /\ phase = "bootstrap"
    /\ \E v \in VtxIDs :
        /\ ParentsV[v] # <<>>
        /\ MissingDependencies(World, v) = {}
        /\ vtxStatus[v] = Processing
        /\ ExecuteEnds(World, v, [t \in TxIDs |-> "nil and error"]) = "panic"

(***************************************************************************)
(* Properties of the caches of the bootstrap queue                         *)
(***************************************************************************)

\* What a call returned
Answer(r) == [val |-> r.val, err |-> r.err]

\* C40: after any sequence of SetStackSize, SetStackIndex, DeleteStackIndex,
\* SetJob and DeleteJob calls, failed ones among them, StackSize, StackIndex,
\* HasJob and Job return what a read of the database alone returns.
C40_CachedAsTheDatabase ==
    phase = "queue" =>
        /\ Answer(StackSize(mgr)) = DBInt(mgr.db, stackSizeKey)
        /\ \A index \in StackIndices :
              Answer(StackIndex(mgr, index)) = DBJob(mgr.db, StackKey(index))
        /\ \A id \in QueueJobIDs :
              /\ Answer(HasJob(mgr, id)) = DBHasKey(mgr.db, JobKey(id))
              /\ Answer(JobOf(mgr, id)) = DBJob(mgr.db, JobKey(id))

\* A write has just failed while the caches hold a stack size, a stack index
\* and a job, and the database holds a job that is not cached
C40_Witness ==
    /\ phase = "queue"
    /\ res.err /\ res.op \in {"SetStackSize", "SetStackIndex", "DeleteStackIndex", "SetJob", "DeleteJob"}
    /\ mgr.stackSizeSet
    /\ mgr.stackIndexCache # <<>>
    /\ mgr.jobCache # <<>>
    /\ \E id \in QueueJobIDs : JobKey(id) \in DOMAIN mgr.db /\ ~JobCacheHas(mgr.jobCache, id)

====
